---- MODULE Spec2Model ----
(***************************************************************************)
(* Team optimizer (web/optimizer.js): players are assigned to numTeams     *)
(* teams by a genetic algorithm whose operators repair their offspring.    *)
(* An individual is an array with one team index per player; indices of    *)
(* players run over 1..numPlayers here (0..numPlayers-1 in the source),    *)
(* team ids over 0..numTeams-1 as in the source.                           *)
(***************************************************************************)
EXTENDS Integers, Sequences, FiniteSets, TLC

VARIABLES
    players,         \* this.players: the Player objects of the run
    numTeams,        \* this.numTeams
    populationSize,  \* this.populationSize
    generations,     \* this.generations
    onProgress,      \* this.onProgress: TRUE when a callback is configured
    coAssignGroups,  \* this.coAssignGroups: group id -> set of player indices
    pc,              \* optimize: position in the function
    population,      \* optimize: the current population
    fitnesses,       \* optimize: fitnesses of the current population
    bestIndividual,  \* optimize: <<>> for null (it is null exactly while
                     \* bestFitness is Infinity)
    bestFitness,     \* optimize
    gen,             \* optimize: the loop counter
    newPopulation,   \* optimize: the population being built
    parents,         \* optimize: <<parent1, parent2>> of the pair in work
    drawnLeast,      \* history: for each parent, the least fitness among the
                     \* competitors tournamentSelection drew for it
    offspring,       \* optimize: <<offspring1, offspring2>> of the pair in work
    events,          \* the progress events passed to onProgress, in order
    result,          \* what optimize returned: the decoded teams
    earliestLeast,   \* history: the first array evaluated, in evaluation
                     \* order, whose fitness no evaluated array undercuts
    leastGenerated,  \* history: the least fitness of the arrays created or
                     \* bred so far
    sinceYield,      \* history: generations evaluated since optimize last
                     \* suspended, or since it started
    appPlayers,      \* app.js: the global `players`
    generationsInput,\* app.js: the value of the generations slider
    optimizedTeams,  \* app.js: the global `optimizedTeams`, <<>> for null
    exported,        \* app.js: the teams of the last export, <<>> for none
    lastLoaded,      \* history: the list of the last upload that loaded
                     \* players
    optimizeBtnDisabled, \* app.js: optimizeBtn.disabled
    apc,             \* runOptimization: "idle" with no async function in
                     \* work, "await" at `await optimizer.optimize()`,
                     \* "timer" while the setTimeout of line 188 is pending
    inProgress,      \* history: runs started whose results are not yet
                     \* displayed and whose error is not yet reported
    runs,            \* history: runs started since the page was loaded
    displayed,       \* app.js: the teams displayResults showed last, <<>>
                     \* for none
    individual,      \* repairIndividual: the array being repaired in place
    iteration,       \* repairIndividual: passes of the for loop started so far
    rpc,             \* repairIndividual: "loop" in the for loop, else its exit
    call,            \* a helper called on its own: <<name, arguments...>>
    before,          \* that call: `individual` as it was passed in
    returned         \* that call: the value returned (TRUE for a void helper)

config == <<players, numTeams, populationSize, generations, onProgress,
            coAssignGroups>>

run == <<pc, population, fitnesses, bestIndividual, bestFitness, gen,
         newPopulation, parents, drawnLeast, offspring, events, result,
         earliestLeast, leastGenerated, sinceYield>>

helper == <<call, before, returned>>

repair == <<individual, iteration, rpc, helper>>

page == <<optimizeBtnDisabled, apc, inProgress, runs, displayed>>

host == <<appPlayers, generationsInput, optimizedTeams, exported, lastLoaded,
          page>>

vars == <<config, run, repair, host>>

----------------------------------------------------------------------------
(* Player objects as the Player constructor leaves them.  attendance is in *)
(* percent; coAssignGroup 0 stands for null.                               *)

Player(pos, score, att, coach, grp) ==
    [position |-> pos, totalScore |-> score, attendance |-> att,
     isCoach |-> coach, coAssignGroup |-> grp]

isOutfielder(p) == p.position = "CF" \/ p.position = "OF"

requiredPositions == <<"SS", "CF", "2B", "3B", "P", "1B", "C">>

\* the smallest outfield count checkPositionsCovered and evaluate accept
minOutfield == 3

\* repairIndividual's iteration budget
maxIterations == 100

Range(f) == {f[k] : k \in DOMAIN f}

Min(S) == CHOOSE x \in S : \A y \in S : x <= y
Max(S) == CHOOSE x \in S : \A y \in S : x >= y

----------------------------------------------------------------------------
(* Rosters the model is run on.                                            *)

\* four ungrouped players of four different roles, one coach
RosterPlain ==
    << Player("SS", 4, 100, TRUE, 0), Player("CF", 2, 50, FALSE, 0),
       Player("2B", 1, 100, FALSE, 0), Player("OF", 3, 100, FALSE, 0) >>

\* a group of three (id 7) and one ungrouped player
RosterGroup ==
    << Player("SS", 4, 100, FALSE, 7), Player("CF", 2, 50, TRUE, 7),
       Player("OF", 1, 100, TRUE, 7), Player("SS", 3, 100, FALSE, 0) >>

\* two groups (ids 7 and 3) and one ungrouped player
RosterTwoGroups ==
    << Player("SS", 1, 100, FALSE, 7), Player("2B", 2, 100, FALSE, 3),
       Player("CF", 2, 100, FALSE, 7), Player("SS", 3, 50, FALSE, 0) >>

\* a file without players
RosterEmpty == <<>>

\* three ungrouped players
RosterTrio ==
    << Player("SS", 4, 100, TRUE, 0), Player("CF", 2, 50, FALSE, 0),
       Player("OF", 1, 100, FALSE, 0) >>

\* two players sharing group id 7 and one ungrouped player
RosterPair ==
    << Player("SS", 3, 100, FALSE, 7), Player("CF", 1, 50, TRUE, 7),
       Player("SS", 2, 100, TRUE, 0) >>

\* 18 players for which two full teams exist: group 1 holds a full infield
\* with CF and one OF (8 players), group 2 the six roles other than SS,
\* group 3 an SS and an OF; two ungrouped OF.  Group 1 with one ungrouped OF
\* against groups 2 and 3 with the other is a feasible assignment.
RosterFeasibleGroups ==
    << Player("SS", 0, 100, FALSE, 1), Player("CF", 0, 100, FALSE, 1),
       Player("2B", 0, 100, FALSE, 1), Player("3B", 0, 100, FALSE, 1),
       Player("P", 0, 100, FALSE, 1),  Player("1B", 0, 100, FALSE, 1),
       Player("C", 0, 100, FALSE, 1),  Player("OF", 0, 100, FALSE, 1),
       Player("CF", 0, 100, FALSE, 2), Player("2B", 0, 100, FALSE, 2),
       Player("3B", 0, 100, FALSE, 2), Player("P", 0, 100, FALSE, 2),
       Player("1B", 0, 100, FALSE, 2), Player("C", 0, 100, FALSE, 2),
       Player("SS", 0, 100, FALSE, 3), Player("OF", 0, 100, FALSE, 3),
       Player("OF", 0, 100, FALSE, 0), Player("OF", 0, 100, FALSE, 0) >>

\* 18 ungrouped players, two of each of the seven roles and four OF: the
\* assignment of player i to team (i-1) % 2 is feasible
RosterFeasible ==
    << Player("SS", 0, 100, FALSE, 0), Player("SS", 0, 100, FALSE, 0),
       Player("CF", 0, 100, FALSE, 0), Player("CF", 0, 100, FALSE, 0),
       Player("2B", 0, 100, FALSE, 0), Player("2B", 0, 100, FALSE, 0),
       Player("3B", 0, 100, FALSE, 0), Player("3B", 0, 100, FALSE, 0),
       Player("P", 0, 100, FALSE, 0),  Player("P", 0, 100, FALSE, 0),
       Player("1B", 0, 100, FALSE, 0), Player("1B", 0, 100, FALSE, 0),
       Player("C", 0, 100, FALSE, 0),  Player("C", 0, 100, FALSE, 0),
       Player("OF", 0, 100, FALSE, 0), Player("OF", 0, 100, FALSE, 0),
       Player("OF", 0, 100, FALSE, 0), Player("OF", 0, 100, FALSE, 0) >>

\* seven ungrouped players, three of them outfielders
RosterOutfield ==
    << Player("CF", 3, 100, FALSE, 0), Player("CF", 2, 100, FALSE, 0),
       Player("OF", 1, 100, FALSE, 0), Player("SS", 4, 100, FALSE, 0),
       Player("SS", 2, 50, TRUE, 0),   Player("SS", 1, 100, FALSE, 0),
       Player("SS", 3, 100, FALSE, 0) >>

\* four ungrouped players (indices 1, 3, 4, 6) around a group of two
RosterMixed ==
    << Player("SS", 4, 100, FALSE, 0), Player("CF", 2, 100, FALSE, 5),
       Player("2B", 1, 100, FALSE, 0), Player("OF", 3, 50, TRUE, 0),
       Player("SS", 2, 100, FALSE, 5), Player("CF", 1, 100, FALSE, 0) >>

\* 14 ungrouped players, two of each of the seven roles and no OF: every
\* role can be covered on two teams, three outfielders cannot
RosterRoles == SubSeq(RosterFeasible, 1, 14)

----------------------------------------------------------------------------
(* TeamOptimizer: constructor and encoding.  The operators below take the  *)
(* optimizer object o (`this`: its players, numTeams and coAssignGroups).  *)

\* buildCoAssignGroups: group id -> indices of the players carrying it
buildCoAssignGroups(ps) ==
    [g \in {ps[i].coAssignGroup : i \in DOMAIN ps} \ {0} |->
        {i \in DOMAIN ps : ps[i].coAssignGroup = g}]

\* the fields the constructor sets from its arguments
TeamOptimizer(ps, n) ==
    [players |-> ps, numTeams |-> n, coAssignGroups |-> buildCoAssignGroups(ps)]

\* Object.values(this.coAssignGroups).some(group => group.includes(i))
isCoAssigned(o, i) ==
    \E g \in DOMAIN o.coAssignGroups : i \in o.coAssignGroups[g]

TeamIds(o) == 0 .. o.numTeams - 1

PlayerIds(o) == 1 .. Len(o.players)

\* the players no group holds, as crossover and mutate collect them
nonCoAssign(o) == {i \in PlayerIds(o) : ~isCoAssigned(o, i)}

\* decodeIndividual that adds each player to the team after the one named
decodeIndividualShifted(o, ind) ==
    [t \in TeamIds(o) |-> {i \in DOMAIN ind : (ind[i] + 1) % o.numTeams = t}]

\* decodeIndividual: the members (player indices) of every team
decodeIndividual(o, ind) ==
    [t \in TeamIds(o) |-> {i \in DOMAIN ind : ind[i] = t}]

\* Team.getPositionCount on a decoded team
getPositionCount(o, members, pos) ==
    IF pos = "OF"
    THEN Cardinality({i \in members : isOutfielder(o.players[i])})
    ELSE Cardinality({i \in members : o.players[i].position = pos})

\* teams.map(t => t.players.length)
teamSizes(o, ind) ==
    [t \in TeamIds(o) |-> Cardinality({i \in DOMAIN ind : ind[i] = t})]

\* every group's members carry one team index
GroupsTogether(o, ind) ==
    \A g \in DOMAIN o.coAssignGroups :
        \A i, j \in o.coAssignGroups[g] : ind[i] = ind[j]

\* createIndividual: one random team per group, one per ungrouped player
createIndividual(o) ==
    {[i \in PlayerIds(o) |->
        IF isCoAssigned(o, i) THEN gt[o.players[i].coAssignGroup] ELSE ft[i]] :
        gt \in [DOMAIN o.coAssignGroups -> TeamIds(o)],
        ft \in [nonCoAssign(o) -> TeamIds(o)]}

----------------------------------------------------------------------------
(* Repair engine.  Every operator that draws from Math.random returns the  *)
(* set of arrays the draw can leave; the empty set stands for `false`.     *)

\* movePlayer that moves the chosen grouped player alone
movePlayerSingle(o, ind, fromTeamId, toTeamId) ==
    LET fromTeamPlayerIndices == {i \in DOMAIN ind : ind[i] = fromTeamId}
        nonCoAssignPlayers ==
            {i \in fromTeamPlayerIndices : ~isCoAssigned(o, i)}
    IN  IF nonCoAssignPlayers # {}
        THEN {[ind EXCEPT ![i] = toTeamId] : i \in nonCoAssignPlayers}
        ELSE {[ind EXCEPT ![i] = toTeamId] : i \in fromTeamPlayerIndices}

\* movePlayer(individual, teams, fromTeamId, toTeamId)
movePlayer(o, ind, fromTeamId, toTeamId) ==
    LET fromTeamPlayerIndices == {i \in DOMAIN ind : ind[i] = fromTeamId}
        nonCoAssignPlayers ==
            {i \in fromTeamPlayerIndices : ~isCoAssigned(o, i)}
    IN  IF nonCoAssignPlayers # {}
        THEN {[ind EXCEPT ![i] = toTeamId] : i \in nonCoAssignPlayers}
        ELSE IF fromTeamPlayerIndices # {}
        THEN {[j \in DOMAIN ind |->
                 IF j \in o.coAssignGroups[o.players[i].coAssignGroup]
                 THEN toTeamId ELSE ind[j]] :
                 i \in fromTeamPlayerIndices}
        ELSE {ind}

\* balanceTeamSizes that moves from the smallest team to the largest
balanceTeamSizesReversed(o, ind) ==
    LET sizes == teamSizes(o, ind)
        maxSize == Max({sizes[t] : t \in TeamIds(o)})
        minSize == Min({sizes[t] : t \in TeamIds(o)})
        maxTeamId == Min({t \in TeamIds(o) : sizes[t] = maxSize})
        minTeamId == Min({t \in TeamIds(o) : sizes[t] = minSize})
    IN  IF maxSize - minSize > 1
        THEN movePlayer(o, ind, minTeamId, maxTeamId)
        ELSE {ind}

\* balanceTeamSizes(individual, teams, teamSizes, targetSize)
balanceTeamSizes(o, ind) ==
    LET sizes == teamSizes(o, ind)
        maxSize == Max({sizes[t] : t \in TeamIds(o)})
        minSize == Min({sizes[t] : t \in TeamIds(o)})
        maxTeamId == Min({t \in TeamIds(o) : sizes[t] = maxSize})
        minTeamId == Min({t \in TeamIds(o) : sizes[t] = minSize})
    IN  IF maxSize - minSize > 1
        THEN movePlayer(o, ind, maxTeamId, minTeamId)
        ELSE {ind}

\* the roles a team does not cover, in the order checkPositionsCovered and
\* repairPositions visit them
missingPositions(o, ind, t) ==
    LET team == {i \in DOMAIN ind : ind[i] = t}
    IN  SelectSeq(requiredPositions,
                  LAMBDA pos : getPositionCount(o, team, pos) < 1)
        \o (IF getPositionCount(o, team, "OF") < minOutfield
            THEN <<"OF">> ELSE <<>>)

\* checkPositionsCovered(teams)
checkPositionsCovered(o, ind) ==
    \A t \in TeamIds(o) : missingPositions(o, ind, t) = <<>>

\* swapPositionPlayer without its isCoAssigned test
swapPositionPlayerAny(o, ind, donorTeamId, recipientTeamId, position) ==
    LET donorPlayers ==
            {i \in DOMAIN ind :
                /\ ind[i] = donorTeamId
                /\ \/ position = "OF" /\ isOutfielder(o.players[i])
                   \/ o.players[i].position = position}
    IN  {[ind EXCEPT ![i] = recipientTeamId] : i \in donorPlayers}

\* swapPositionPlayer that matches the position code only
swapPositionPlayerExactRole(o, ind, donorTeamId, recipientTeamId, position) ==
    LET donorPlayers ==
            {i \in DOMAIN ind :
                /\ ind[i] = donorTeamId
                /\ o.players[i].position = position
                /\ ~isCoAssigned(o, i)}
    IN  {[ind EXCEPT ![i] = recipientTeamId] : i \in donorPlayers}

\* swapPositionPlayer(individual, teams, donorTeamId, recipientTeamId, position)
swapPositionPlayer(o, ind, donorTeamId, recipientTeamId, position) ==
    LET donorPlayers ==
            {i \in DOMAIN ind :
                /\ ind[i] = donorTeamId
                /\ \/ position = "OF" /\ isOutfielder(o.players[i])
                   \/ o.players[i].position = position
                /\ ~isCoAssigned(o, i)}
    IN  {[ind EXCEPT ![i] = recipientTeamId] : i \in donorPlayers}

\* the donor teams of one try of fixMissingPosition, in team order: the
\* teams other than the needy one with more than `above` players of the role
donorTeams(o, ind, needyTeamId, neededPos, above) ==
    LET ordered[k \in 0 .. o.numTeams] ==
            IF k = 0 THEN <<>>
            ELSE IF /\ k - 1 # needyTeamId
                    /\ getPositionCount(o, {i \in DOMAIN ind : ind[i] = k - 1},
                                        neededPos) > above
            THEN Append(ordered[k - 1], k - 1)
            ELSE ordered[k - 1]
    IN  ordered[o.numTeams]

\* fixMissingPosition without its second try
fixMissingPositionFirstTry(o, ind, needyTeamId, neededPos) ==
    LET donors == donorTeams(o, ind, needyTeamId, neededPos,
                             IF neededPos = "OF" THEN 3 ELSE 1)
        swaps == [k \in DOMAIN donors |->
                    swapPositionPlayer(o, ind, donors[k], needyTeamId, neededPos)]
        able == {k \in DOMAIN donors : swaps[k] # {}}
    IN  IF able = {} THEN {} ELSE swaps[Min(able)]

\* fixMissingPosition(individual, teams, needyTeamId, neededPos): first the
\* teams with extras (> 3 outfielders, > 1 of another role), then any team
\* holding the role (> 2 outfielders, > 0 of another role); the first donor
\* whose swapPositionPlayer succeeds is taken
fixMissingPosition(o, ind, needyTeamId, neededPos) ==
    LET firstTry == donorTeams(o, ind, needyTeamId, neededPos,
                               IF neededPos = "OF" THEN 3 ELSE 1)
        secondTry == donorTeams(o, ind, needyTeamId, neededPos,
                                IF neededPos = "OF" THEN 2 ELSE 0)
        donors == firstTry \o secondTry
        swaps == [k \in DOMAIN donors |->
                    swapPositionPlayer(o, ind, donors[k], needyTeamId, neededPos)]
        able == {k \in DOMAIN donors : swaps[k] # {}}
    IN  IF able = {} THEN {} ELSE swaps[Min(able)]

\* every (team, role) the loops of repairPositions visit, in their order
deficiencies(o, ind) ==
    LET upTo[k \in 0 .. o.numTeams] ==
            IF k = 0 THEN <<>>
            ELSE LET missing == missingPositions(o, ind, k - 1)
                 IN  upTo[k - 1] \o
                     [n \in DOMAIN missing |-> <<k - 1, missing[n]>>]
    IN  upTo[o.numTeams]

\* repairPositions that gives up when its first deficiency has no donor
repairPositionsFirstOnly(o, ind) ==
    LET defs == deficiencies(o, ind)
    IN  IF defs = <<>> THEN {}
        ELSE fixMissingPosition(o, ind, defs[1][1], defs[1][2])

\* repairPositions(individual, teams): the first deficiency that
\* fixMissingPosition can fix is fixed; {} when none can
repairPositions(o, ind) ==
    LET defs == deficiencies(o, ind)
        fixes == [k \in DOMAIN defs |->
                    fixMissingPosition(o, ind, defs[k][1], defs[k][2])]
        fixable == {k \in DOMAIN defs : fixes[k] # {}}
    IN  IF fixable = {} THEN {} ELSE fixes[Min(fixable)]

\* the call that decides a pass of repairIndividual, with the deficiency
\* for which fixMissingPosition returned true
passCall(o, ind) ==
    LET sizes == teamSizes(o, ind)
        maxSize == Max({sizes[t] : t \in TeamIds(o)})
        minSize == Min({sizes[t] : t \in TeamIds(o)})
        defs == deficiencies(o, ind)
        fixable == {k \in DOMAIN defs :
                      fixMissingPosition(o, ind, defs[k][1], defs[k][2]) # {}}
    IN  IF maxSize - minSize > 1 THEN <<"balanceTeamSizes">>
        ELSE IF checkPositionsCovered(o, ind) THEN <<"checkPositionsCovered">>
        ELSE IF fixable = {} THEN <<"repairPositions">>
        ELSE <<"fixMissingPosition", defs[Min(fixable)][1],
               defs[Min(fixable)][2]>>

\* repairPass without the return on covered positions
repairPassNoReturn(o, ind) ==
    LET sizes == teamSizes(o, ind)
        maxSize == Max({sizes[t] : t \in TeamIds(o)})
        minSize == Min({sizes[t] : t \in TeamIds(o)})
        fixed == repairPositions(o, ind)
    IN  IF maxSize - minSize > 1
        THEN {[ind |-> x, next |-> "continue"] : x \in balanceTeamSizes(o, ind)}
        ELSE IF fixed = {}
        THEN {[ind |-> ind, next |-> "break"]}
        ELSE {[ind |-> x, next |-> "continue"] : x \in fixed}

\* one pass of the for loop of repairIndividual: the arrays it can leave,
\* each with what the loop does next
repairPass(o, ind) ==
    LET sizes == teamSizes(o, ind)
        maxSize == Max({sizes[t] : t \in TeamIds(o)})
        minSize == Min({sizes[t] : t \in TeamIds(o)})
        fixed == repairPositions(o, ind)
    IN  IF maxSize - minSize > 1
        THEN {[ind |-> x, next |-> "continue"] : x \in balanceTeamSizes(o, ind)}
        ELSE IF checkPositionsCovered(o, ind)
        THEN {[ind |-> ind, next |-> "return"]}
        ELSE IF fixed = {}
        THEN {[ind |-> ind, next |-> "break"]}
        ELSE {[ind |-> x, next |-> "continue"] : x \in fixed}

\* the passes of repairIndividual from pass k on, for every array in
\* `active` at once, `pass` being repairPass tabulated: the arrays it can
\* return
RECURSIVE repairFrom(_, _, _, _)
repairFrom(pass, active, finished, k) ==
    IF active = {} \/ k >= maxIterations THEN finished \cup active
    ELSE LET outs == UNION {pass[x] : x \in active}
             going == {q.ind : q \in {r \in outs : r.next = "continue"}}
             ended == finished \cup
                      {q.ind : q \in {r \in outs : r.next # "continue"}}
         IN  \* the test makes TLC enumerate both sets before the next pass
             IF Cardinality(going) + Cardinality(ended) >= 0
             THEN repairFrom(pass, going, ended, k + 1)
             ELSE {}


----------------------------------------------------------------------------
(* Numbers.  The source computes in floating point; the model computes the *)
(* same expressions exactly, on fractions n/d in lowest terms with d > 0.  *)
(* A fitness is kept as whole + frac with 0 <= frac < 1, or is Infinity.   *)

RECURSIVE GCD(_, _)
GCD(a, b) == IF b = 0 THEN a ELSE GCD(b, a % b)

Abs(x) == IF x < 0 THEN -x ELSE x

\* the result of a division by zero
NaN == [n |-> 0, d |-> 0]

\* the fraction n / d in lowest terms; NaN when an operand was NaN
Q(n, d) ==
    IF d = 0 THEN NaN
    ELSE LET g == GCD(Abs(n), d) IN [n |-> n \div g, d |-> d \div g]

QAdd(a, b) == Q(a.n * b.d + b.n * a.d, a.d * b.d)
QSub(a, b) == Q(a.n * b.d - b.n * a.d, a.d * b.d)
QMul(a, b) == Q(a.n * b.n, a.d * b.d)
QDiv(a, k) == Q(a.n, a.d * k)
QLess(a, b) == a.n * b.d < b.n * a.d

\* values.reduce((a, b) => a + b, 0) over a sequence of fractions
QSum(values) ==
    LET upTo[k \in 0 .. Len(values)] ==
            IF k = 0 THEN Q(0, 1) ELSE QAdd(upTo[k - 1], values[k])
    IN  upTo[Len(values)]

\* the sum of f[i] over the players i of a team
SumOver(members, f) ==
    LET upTo[k \in 0 .. Len(f)] ==
            IF k = 0 THEN 0
            ELSE upTo[k - 1] + (IF k \in members THEN f[k] ELSE 0)
    IN  upTo[Len(f)]

Infinity == [inf |-> TRUE, whole |-> 0, frac |-> Q(0, 1)]

\* the number whole + q as a fitness
Fitness(whole, q) ==
    IF q = NaN THEN [inf |-> FALSE, whole |-> 0, frac |-> NaN]
    ELSE [inf |-> FALSE, whole |-> whole + q.n \div q.d,
          frac |-> Q(q.n % q.d, q.d)]

\* isNaN on fitnesses
IsNaN(a) == a.frac = NaN

\* a < b on fitnesses
Less(a, b) ==
    /\ ~IsNaN(a)
    /\ ~IsNaN(b)
    /\ ~a.inf
    /\ \/ b.inf
       \/ a.whole < b.whole
       \/ a.whole = b.whole /\ QLess(a.frac, b.frac)

\* a <= b on fitnesses
AtMost(a, b) == ~Less(b, a)

----------------------------------------------------------------------------
(* Team statistics and the fitness function.                               *)

\* getAverageSkill without its test for an empty team
getAverageSkillUnguarded(o, members) ==
    Q(SumOver(members, [i \in PlayerIds(o) |-> o.players[i].totalScore]),
      Cardinality(members))

\* Team.getAverageSkill
getAverageSkill(o, members) ==
    IF members = {} THEN Q(0, 1)
    ELSE Q(SumOver(members, [i \in PlayerIds(o) |-> o.players[i].totalScore]),
           Cardinality(members))

\* Team.getAverageAttendance (attendance is kept in percent)
getAverageAttendance(o, members) ==
    IF members = {} THEN Q(0, 1)
    ELSE Q(SumOver(members, [i \in PlayerIds(o) |-> o.players[i].attendance]),
           100 * Cardinality(members))

\* variance(values): population variance of a sequence of fractions
variance(values) ==
    IF Len(values) < 2 THEN Q(0, 1)
    ELSE LET mean == QDiv(QSum(values), Len(values))
             squaredDiffs == [k \in DOMAIN values |->
                                QMul(QSub(values[k], mean), QSub(values[k], mean))]
         IN  QDiv(QSum(squaredDiffs), Len(values))

\* Team.getSkillVariance
getSkillVariance(o, members) ==
    IF Cardinality(members) < 2 THEN Q(0, 1)
    ELSE LET avg == getAverageSkill(o, members)
             sq(i) == QMul(QSub(Q(o.players[i].totalScore, 1), avg),
                           QSub(Q(o.players[i].totalScore, 1), avg))
             upTo[k \in 0 .. Len(o.players)] ==
                IF k = 0 THEN Q(0, 1)
                ELSE IF k \in members THEN QAdd(upTo[k - 1], sq(k))
                ELSE upTo[k - 1]
         IN  QDiv(upTo[Len(o.players)], Cardinality(members))

\* the teams of a decoded individual as a sequence, team 0 first
teamSeq(o, ind) ==
    [k \in 1 .. o.numTeams |-> decodeIndividual(o, ind)[k - 1]]

\* hardPenalty with a flat 5000 for a team short of outfielders
hardPenaltyFlatOutfield(o, ind) ==
    LET teams == teamSeq(o, ind)
        perTeam == [k \in DOMAIN teams |->
            10000 * Cardinality({n \in DOMAIN requiredPositions :
                        getPositionCount(o, teams[k], requiredPositions[n]) < 1})
            + (IF getPositionCount(o, teams[k], "OF") < 3 THEN 5000 ELSE 0)
            + (IF Cardinality(teams[k]) < 9
               THEN 2000 * (9 - Cardinality(teams[k])) ELSE 0)]
        split == {g \in DOMAIN o.coAssignGroups :
                    Cardinality({ind[i] : i \in o.coAssignGroups[g]}) > 1}
        sizes == {Cardinality(teams[k]) : k \in DOMAIN teams}
    IN  SumOver(DOMAIN teams, perTeam)
        + 500 * Cardinality(split)
        + (IF Max(sizes) - Min(sizes) > 1
           THEN 3000 * (Max(sizes) - Min(sizes) - 1) ELSE 0)

\* evaluate: the penalty for positions, team size, split groups and size
\* imbalance
hardPenalty(o, ind) ==
    LET teams == teamSeq(o, ind)
        perTeam == [k \in DOMAIN teams |->
            10000 * Cardinality({n \in DOMAIN requiredPositions :
                        getPositionCount(o, teams[k], requiredPositions[n]) < 1})
            + (IF getPositionCount(o, teams[k], "OF") < 3
               THEN 5000 * (3 - getPositionCount(o, teams[k], "OF")) ELSE 0)
            + (IF Cardinality(teams[k]) < 9
               THEN 2000 * (9 - Cardinality(teams[k])) ELSE 0)]
        split == {g \in DOMAIN o.coAssignGroups :
                    Cardinality({ind[i] : i \in o.coAssignGroups[g]}) > 1}
        sizes == {Cardinality(teams[k]) : k \in DOMAIN teams}
    IN  SumOver(DOMAIN teams, perTeam)
        + 500 * Cardinality(split)
        + (IF Max(sizes) - Min(sizes) > 1
           THEN 3000 * (Max(sizes) - Min(sizes) - 1) ELSE 0)

\* coachPenalty that charges teams without a coach whatever the total
coachPenaltyAlways(o, ind) ==
    LET teams == teamSeq(o, ind)
        totalCoaches == Cardinality({i \in PlayerIds(o) : o.players[i].isCoach})
        coachesPerTeam == [k \in DOMAIN teams |->
            Cardinality({i \in teams[k] : o.players[i].isCoach})]
    IN  IF totalCoaches > 0
        THEN SumOver(DOMAIN teams, [k \in DOMAIN teams |->
                IF coachesPerTeam[k] = 0 THEN 50
                ELSE IF coachesPerTeam[k] > 1
                THEN 30 * (coachesPerTeam[k] - 1) ELSE 0])
        ELSE 0

\* evaluate: the coach distribution penalty
coachPenalty(o, ind) ==
    LET teams == teamSeq(o, ind)
        totalCoaches == Cardinality({i \in PlayerIds(o) : o.players[i].isCoach})
        coachesPerTeam == [k \in DOMAIN teams |->
            Cardinality({i \in teams[k] : o.players[i].isCoach})]
    IN  IF totalCoaches > 0
        THEN IF totalCoaches >= o.numTeams
             THEN SumOver(DOMAIN teams, [k \in DOMAIN teams |->
                    IF coachesPerTeam[k] = 0 THEN 50
                    ELSE IF coachesPerTeam[k] > 1
                    THEN 30 * (coachesPerTeam[k] - 1) ELSE 0])
             ELSE SumOver(DOMAIN teams, [k \in DOMAIN teams |->
                    IF coachesPerTeam[k] > 1
                    THEN 50 * (coachesPerTeam[k] - 1) ELSE 0])
        ELSE 0

\* evaluate: skillVariance * 50 + attendanceVariance * 10 +
\* avgWithinVariance * 0.5
softTerms(o, ind) ==
    LET teams == teamSeq(o, ind)
        skillVariance ==
            variance([k \in DOMAIN teams |-> getAverageSkill(o, teams[k])])
        attendanceVariance ==
            variance([k \in DOMAIN teams |-> getAverageAttendance(o, teams[k])])
        avgWithinVariance ==
            QDiv(QSum([k \in DOMAIN teams |-> getSkillVariance(o, teams[k])]),
                 Len(teams))
    IN  QAdd(QAdd(QMul(skillVariance, Q(50, 1)),
                  QMul(attendanceVariance, Q(10, 1))),
             QMul(avgWithinVariance, Q(1, 2)))

\* evaluate(individual)
evaluate(o, ind) ==
    Fitness(hardPenalty(o, ind) + coachPenalty(o, ind), softTerms(o, ind))

----------------------------------------------------------------------------
(* Bounds of the model.                                                    *)

\* populations hold at most MaxPopulation individuals
MaxPopulation == 3

\* runs last at most MaxGenerations generations
MaxGenerations == 2

\* createIndividual draws freely for the first MaxDrawn players; the draw
\* of a later player i is (i - 1) % numTeams
MaxDrawn == 4

\* rosters of more than MaxBred players run with a population of one
MaxBred == 4

\* populations of at most MaxLongPopulation individuals also run for
\* LongGenerations generations, past the second periodic report
MaxLongPopulation == 2

LongGenerations == 11

----------------------------------------------------------------------------
(* Genetic operators.  Each returns the set of its possible results.       *)

\* createDrawn with one draw per player, grouped or not
createDrawnPerPlayer(o) ==
    {[i \in PlayerIds(o) |->
        IF i <= MaxDrawn THEN ft[i] ELSE (i - 1) % o.numTeams] :
        ft \in [{i \in PlayerIds(o) : i <= MaxDrawn} -> TeamIds(o)]}

\* createDrawn whose draws are Math.round(Math.random() * numTeams)
createDrawnRounded(o) ==
    LET free == {i \in nonCoAssign(o) : i <= MaxDrawn}
    IN  {[i \in PlayerIds(o) |->
            IF isCoAssigned(o, i) THEN gt[o.players[i].coAssignGroup]
            ELSE IF i \in free THEN ft[i] ELSE (i - 1) % o.numTeams] :
            gt \in [DOMAIN o.coAssignGroups -> 0 .. o.numTeams],
            ft \in [free -> 0 .. o.numTeams]}

\* createIndividual restricted to the draws the model follows
createDrawn(o) ==
    LET free == {i \in nonCoAssign(o) : i <= MaxDrawn}
    IN  {[i \in PlayerIds(o) |->
            IF isCoAssigned(o, i) THEN gt[o.players[i].coAssignGroup]
            ELSE IF i \in free THEN ft[i] ELSE (i - 1) % o.numTeams] :
            gt \in [DOMAIN o.coAssignGroups -> TeamIds(o)],
            ft \in [free -> TeamIds(o)]}

\* the optimizers whose populations breed in the model, and for each the
\* results of repairIndividual on every array, computed once
Bred ==
    {TeamOptimizer(r, 2) : r \in {RosterTrio, RosterPair, RosterEmpty}}

repairResults ==
    [o \in Bred |->
        LET pass == [ind \in [PlayerIds(o) -> TeamIds(o)] |->
                        repairPass(o, ind)] @@ <<>>
        IN  [ind \in [PlayerIds(o) -> TeamIds(o)] |->
                repairFrom(pass, {ind}, {}, 0)] @@ <<>>] @@ <<>>

\* repairIndividual(individual): the arrays it can leave in `individual`
repairIndividual(o, ind) == repairResults[o][ind]

\* evaluate on every array of those optimizers, computed once
fitnessResults ==
    [o \in Bred |->
        [ind \in [PlayerIds(o) -> TeamIds(o)] |-> evaluate(o, ind)] @@ <<>>] @@ <<>>

\* this.evaluate(ind), looked up where it was computed
fitnessOf(o, ind) ==
    IF o \in Bred /\ ind \in [PlayerIds(o) -> TeamIds(o)]
    THEN fitnessResults[o][ind]
    ELSE evaluate(o, ind)

tournamentSize == 3

\* the competitors tournamentSelection can draw: indices of the population
tournamentDraws(pop) == [1 .. tournamentSize -> DOMAIN pop]

\* tournamentWinner without the sort: the first competitor drawn
tournamentWinnerUnsorted(pop, fits, c) == pop[c[1]]

\* tournamentSelection for the draws c: the sort is stable, so the winner is
\* the first drawn competitor of least fitness
tournamentWinner(pop, fits, c) ==
    pop[c[Min({k \in 1 .. tournamentSize :
                 \A j \in 1 .. tournamentSize : AtMost(fits[c[k]], fits[c[j]])})]]

\* tournamentSelection(population, fitnesses)
tournamentSelection(pop, fits) ==
    {tournamentWinner(pop, fits, c) : c \in tournamentDraws(pop)}

\* history: the least fitness among the competitors of the draws c
leastDrawn(fits, c) ==
    LET drawn == {fits[c[k]] : k \in 1 .. tournamentSize}
    IN  CHOOSE f \in drawn : \A g \in drawn : AtMost(f, g)

\* every tournament that can be held: what tournamentSelection returns for
\* its draws, with the least fitness drawn
tournaments(pop, fits) ==
    {[winner |-> tournamentWinner(pop, fits, c), least |-> leastDrawn(fits, c)] :
        c \in tournamentDraws(pop)}

\* the list nonCoAssign that crossover and mutate build, in index order
nonCoAssignSeq(o) ==
    LET upTo[k \in 0 .. Len(o.players)] ==
            IF k = 0 THEN <<>>
            ELSE IF isCoAssigned(o, k) THEN upTo[k - 1]
            ELSE Append(upTo[k - 1], k)
    IN  upTo[Len(o.players)]

\* crossoverSwap with its points taken in the list of all players
crossoverSwapAllCells(o, ind1, ind2) ==
    LET len == Len(o.players)
        swapped(point1, point2) ==
            {n + 1 : n \in {m \in 0 .. len - 1 : point1 <= m /\ m < point2}}
        cross(a, b, cells) ==
            [i \in DOMAIN a |-> IF i \in cells THEN b[i] ELSE a[i]]
    IN  {<<ind1, ind2>>} \cup
        (IF len > 2
         THEN UNION {{<<cross(ind1, ind2, swapped(point1, point2)),
                        cross(ind2, ind1, swapped(point1, point2))>> :
                         point2 \in point1 .. len - 1} :
                     point1 \in 0 .. len - 1}
         ELSE {})

\* crossover before its repair calls: <<offspring1, offspring2>>
crossoverSwap(o, ind1, ind2) ==
    LET list == nonCoAssignSeq(o)
        len == Len(list)
        swapped(point1, point2) ==
            {list[n + 1] : n \in {m \in 0 .. len - 1 : point1 <= m /\ m < point2}}
        cross(a, b, cells) ==
            [i \in DOMAIN a |-> IF i \in cells THEN b[i] ELSE a[i]]
    IN  {<<ind1, ind2>>} \cup
        (IF len > 2
         THEN UNION {{<<cross(ind1, ind2, swapped(point1, point2)),
                        cross(ind2, ind1, swapped(point1, point2))>> :
                         point2 \in point1 .. len - 1} :
                     point1 \in 0 .. len - 1}
         ELSE {})

\* crossover(ind1, ind2)
crossover(o, ind1, ind2) ==
    UNION {repairIndividual(o, c[1]) \X repairIndividual(o, c[2]) :
             c \in crossoverSwap(o, ind1, ind2)}

\* mutateDraw whose group mutation reassigns one member of the group
mutateDrawMember(o, ind) ==
    LET cells == {m \in [PlayerIds(o) -> TeamIds(o)] :
                     \A i \in PlayerIds(o) : isCoAssigned(o, i) => m[i] = ind[i]}
    IN  cells \cup
        {[m EXCEPT ![member] = newTeam] :
            m \in cells, member \in UNION Range(o.coAssignGroups),
            newTeam \in TeamIds(o)}

\* mutate before its repair call
mutateDraw(o, ind) ==
    LET cells == {m \in [PlayerIds(o) -> TeamIds(o)] :
                     \A i \in PlayerIds(o) : isCoAssigned(o, i) => m[i] = ind[i]}
    IN  cells \cup
        {[i \in PlayerIds(o) |->
            IF i \in o.coAssignGroups[groupId] THEN newTeam ELSE m[i]] :
            m \in cells, groupId \in DOMAIN o.coAssignGroups,
            newTeam \in TeamIds(o)}

\* mutate(individual)
mutate(o, ind) == UNION {repairIndividual(o, m) : m \in mutateDraw(o, ind)}

\* minIdx with lastIndexOf
minIdxLast(fits) ==
    Max({k \in DOMAIN fits : \A j \in DOMAIN fits : AtMost(fits[k], fits[j])})

\* fitnesses.indexOf(Math.min(...fitnesses))
minIdx(fits) ==
    Min({k \in DOMAIN fits : \A j \in DOMAIN fits : AtMost(fits[k], fits[j])})

\* Math.min(...fitnesses): NaN when a fitness is NaN
mathMin(fits) ==
    IF \E k \in DOMAIN fits : IsNaN(fits[k])
    THEN [inf |-> FALSE, whole |-> 0, frac |-> NaN]
    ELSE fits[minIdx(fits)]

\* fitnesses.reduce((a, b) => a + b, 0) / fitnesses.length
avgFitness(fits) ==
    LET wholes == SumOver(DOMAIN fits, [k \in DOMAIN fits |-> fits[k].whole])
        fracs == QSum([k \in DOMAIN fits |-> fits[k].frac])
    IN  Fitness(wholes \div Len(fits),
                QDiv(QAdd(Q(wholes % Len(fits), 1), fracs), Len(fits)))

----------------------------------------------------------------------------
(* optimize.                                                               *)

\* history: the least of `least` and the fitnesses of the arrays of `inds`
LeastWith(o, least, inds) ==
    LET fits == {fitnessOf(o, ind) : ind \in inds} \cup {least}
    IN  CHOOSE f \in fits : \A g \in fits : AtMost(f, g)

\* history: `earliest` after the arrays of `pop` are evaluated in order: an
\* array replaces the record only when its fitness is less
EarliestLeast(o, earliest, pop) ==
    LET upTo[k \in 0 .. Len(pop)] ==
            IF k = 0 THEN earliest
            ELSE IF Less(fitnessOf(o, pop[k]), upTo[k - 1].fitness)
            THEN [individual |-> pop[k], fitness |-> fitnessOf(o, pop[k])]
            ELSE upTo[k - 1]
    IN  upTo[Len(pop)]

this == [players |-> players, numTeams |-> numTeams,
         coAssignGroups |-> coAssignGroups]

Init ==
    /\ players \in {RosterEmpty, RosterTrio, RosterPair, RosterRoles,
                    RosterFeasible}
    /\ numTeams = 2
    /\ populationSize \in
         IF Len(players) <= MaxBred THEN 1 .. MaxPopulation ELSE {1}
    /\ generations \in
         (1 .. MaxGenerations) \cup
         (IF populationSize <= MaxLongPopulation THEN {LongGenerations} ELSE {})
    /\ onProgress \in BOOLEAN
    /\ coAssignGroups = buildCoAssignGroups(players)
    /\ pc = "create"
    /\ population = <<>>
    /\ fitnesses = <<>>
    /\ bestIndividual = <<>>
    /\ bestFitness = Infinity
    /\ gen = 0
    /\ newPopulation = <<>>
    /\ parents = <<>>
    /\ drawnLeast = <<>>
    /\ offspring = <<>>
    /\ events = <<>>
    /\ result = <<>>
    /\ earliestLeast = [individual |-> <<>>, fitness |-> Infinity]
    /\ appPlayers = players
    /\ generationsInput = generations
    /\ optimizedTeams = <<>>
    /\ exported = <<>>
    /\ lastLoaded = players
    /\ optimizeBtnDisabled = TRUE
    /\ apc = "await"
    /\ inProgress = 1
    /\ runs = 1
    /\ displayed = <<>>
    /\ sinceYield = 0
    /\ leastGenerated = Infinity
    /\ individual = <<>>
    /\ iteration = 0
    /\ rpc = "idle"
    /\ call = <<>>
    /\ before = <<>>
    /\ returned = FALSE

\* let population = Array.from({length: populationSize}, createIndividual)
CreatePopulation ==
    /\ pc = "create"
    /\ population' \in [1 .. populationSize -> createDrawn(this)]
    /\ leastGenerated' = LeastWith(this, leastGenerated, Range(population'))
    /\ pc' = "loop"
    /\ UNCHANGED <<config, host, sinceYield, fitnesses, bestIndividual, bestFitness, gen,
                   newPopulation, parents, drawnLeast, offspring, events, result,
                   earliestLeast, repair>>

\* Evaluate that reports in every generation
EvaluateReportingAll ==
    /\ pc = "loop"
    /\ gen < generations
    /\ fitnesses' = [k \in DOMAIN population |-> fitnessOf(this, population[k])]
    /\ earliestLeast' = EarliestLeast(this, earliestLeast, population)
    /\ LET minFitness == mathMin(fitnesses')
       IN  IF Less(minFitness, bestFitness)
           THEN /\ bestFitness' = minFitness
                /\ bestIndividual' = population[minIdx(fitnesses')]
           ELSE UNCHANGED <<bestFitness, bestIndividual>>
    /\ IF onProgress
       THEN /\ events' = Append(events,
                  [generation |-> gen, bestFitness |-> bestFitness',
                   avgFitness |-> avgFitness(fitnesses'), completed |-> FALSE])
            /\ sinceYield' = 0
            /\ pc' = "yield"
            /\ UNCHANGED newPopulation
       ELSE /\ IF bestFitness'.inf
               THEN pc' = "error" /\ UNCHANGED newPopulation
               ELSE pc' = "breed" /\ newPopulation' = <<bestIndividual'>>
            /\ sinceYield' = sinceYield + 1
            /\ UNCHANGED events
    /\ UNCHANGED <<config, host, population, gen, parents, drawnLeast, offspring, result,
                   leastGenerated, repair>>

\* one generation up to `await sleep(0)`, or up to the elitism push when
\* the generation does not report
Evaluate ==
    /\ pc = "loop"
    /\ gen < generations
    /\ fitnesses' = [k \in DOMAIN population |-> fitnessOf(this, population[k])]
    /\ earliestLeast' = EarliestLeast(this, earliestLeast, population)
    /\ LET minFitness == mathMin(fitnesses')
       IN  IF Less(minFitness, bestFitness)
           THEN /\ bestFitness' = minFitness
                /\ bestIndividual' = population[minIdx(fitnesses')]
           ELSE UNCHANGED <<bestFitness, bestIndividual>>
    /\ IF onProgress /\ gen % 10 = 0
       THEN /\ events' = Append(events,
                  [generation |-> gen, bestFitness |-> bestFitness',
                   avgFitness |-> avgFitness(fitnesses'), completed |-> FALSE])
            /\ sinceYield' = 0
            /\ pc' = "yield"
            /\ UNCHANGED newPopulation
       ELSE /\ IF bestFitness'.inf
               THEN pc' = "error" /\ UNCHANGED newPopulation
               ELSE pc' = "breed" /\ newPopulation' = <<bestIndividual'>>
            /\ sinceYield' = sinceYield + 1
            /\ UNCHANGED events
    /\ UNCHANGED <<config, host, population, gen, parents, drawnLeast, offspring, result,
                   leastGenerated, repair>>

\* the timer of sleep(0) fires: the loop body goes on with the elitism push
Resume ==
    /\ pc = "yield"
    /\ IF bestFitness.inf
       THEN pc' = "error" /\ UNCHANGED newPopulation
       ELSE pc' = "breed" /\ newPopulation' = <<bestIndividual>>
    /\ UNCHANGED <<config, host, sinceYield, population, fitnesses, bestIndividual, bestFitness,
                   gen, parents, drawnLeast, offspring, events, result, earliestLeast,
                   leastGenerated, repair>>

\* the two tournamentSelection calls of one pass of the while loop
Select ==
    /\ pc = "breed"
    /\ Len(newPopulation) < populationSize
    /\ \E t1, t2 \in tournaments(population, fitnesses) :
         /\ parents' = <<t1.winner, t2.winner>>
         /\ drawnLeast' = <<t1.least, t2.least>>
    /\ pc' = "crossover"
    /\ UNCHANGED <<config, host, sinceYield, population, fitnesses, bestIndividual, bestFitness,
                   gen, newPopulation, offspring, events, result, earliestLeast,
                   leastGenerated, repair>>

\* let [offspring1, offspring2] = this.crossover(parent1, parent2)
Crossover ==
    /\ pc = "crossover"
    /\ offspring' \in crossover(this, parents[1], parents[2])
    /\ leastGenerated' = LeastWith(this, leastGenerated, Range(offspring'))
    /\ parents' = <<>>
    /\ drawnLeast' = <<>>
    /\ pc' = "mutate1"
    /\ UNCHANGED <<config, host, sinceYield, population, fitnesses, bestIndividual, bestFitness,
                   gen, newPopulation, events, result, earliestLeast, repair>>

\* offspring1 = this.mutate(offspring1)
MutateFirst ==
    /\ pc = "mutate1"
    /\ \E mutated \in mutate(this, offspring[1]) :
         /\ offspring' = <<mutated, offspring[2]>>
         /\ leastGenerated' = LeastWith(this, leastGenerated, {mutated})
    /\ pc' = "mutate2"
    /\ UNCHANGED <<config, host, sinceYield, population, fitnesses, bestIndividual, bestFitness,
                   gen, newPopulation, parents, drawnLeast, events, result, earliestLeast,
                   repair>>

\* MutateSecond that pushes both offspring whatever room is left
MutateSecondBoth ==
    /\ pc = "mutate2"
    /\ \E mutated \in mutate(this, offspring[2]) :
         /\ newPopulation' = newPopulation \o <<offspring[1], mutated>>
         /\ offspring' = <<offspring[1], mutated>>
         /\ leastGenerated' = LeastWith(this, leastGenerated, {mutated})
    /\ pc' = "breed"
    /\ UNCHANGED <<config, host, sinceYield, population, fitnesses, bestIndividual, bestFitness,
                   gen, parents, drawnLeast, events, result, earliestLeast, repair>>

\* offspring2 = this.mutate(offspring2), and the pushes that end the pass
MutateSecond ==
    /\ pc = "mutate2"
    /\ \E mutated \in mutate(this, offspring[2]) :
         /\ newPopulation' =
              IF Len(newPopulation) + 1 < populationSize
              THEN newPopulation \o <<offspring[1], mutated>>
              ELSE Append(newPopulation, offspring[1])
         /\ offspring' = <<offspring[1], mutated>>
         /\ leastGenerated' = LeastWith(this, leastGenerated, {mutated})
    /\ pc' = "breed"
    /\ UNCHANGED <<config, host, sinceYield, population, fitnesses, bestIndividual, bestFitness,
                   gen, parents, drawnLeast, events, result, earliestLeast, repair>>

\* population = newPopulation, and gen++
Advance ==
    /\ pc = "breed"
    /\ Len(newPopulation) >= populationSize
    /\ population' = newPopulation
    /\ gen' = gen + 1
    /\ pc' = "loop"
    /\ UNCHANGED <<config, host, sinceYield, fitnesses, bestIndividual, bestFitness,
                   newPopulation, parents, drawnLeast, offspring, events, result,
                   earliestLeast, leastGenerated, repair>>

\* the final report and the return
Finish ==
    /\ pc = "loop"
    /\ gen >= generations
    /\ events' = IF onProgress
                 THEN Append(events,
                        [generation |-> generations, bestFitness |-> bestFitness,
                         avgFitness |-> bestFitness, completed |-> TRUE])
                 ELSE events
    /\ result' = decodeIndividual(this, bestIndividual)
    /\ pc' = "done"
    /\ UNCHANGED <<config, host, sinceYield, population, fitnesses, bestIndividual, bestFitness,
                   gen, newPopulation, parents, drawnLeast, offspring, earliestLeast,
                   leastGenerated, repair>>

Next ==
    \/ CreatePopulation
    \/ Evaluate
    \/ Resume
    \/ Select
    \/ Crossover
    \/ MutateFirst
    \/ MutateSecond
    \/ Advance
    \/ Finish

Spec == Init /\ [][Next]_vars

----------------------------------------------------------------------------
(* The page (web/app.js) around a run it started.  Its handlers run while  *)
(* optimize is suspended in `await sleep(0)` or has returned.              *)

\* the page's runs breed populations of at most MaxAppPopulation individuals
MaxAppPopulation == 2

\* parseCSV results of the files uploaded during a run
Uploads == {RosterPlain, <<>>}

\* no script of the page is running: optimize is suspended or has returned,
\* or no async function of runOptimization is in work
Suspended == pc \in {"yield", "done"} \/ apc = "idle"

\* handleFile whose upload also replaces the list the optimizer works on
HandleFileShared ==
    /\ Suspended
    /\ \E uploaded \in Uploads :
         /\ appPlayers' = uploaded
         /\ players' = uploaded
         /\ lastLoaded' = IF Len(uploaded) = 0 THEN lastLoaded ELSE uploaded
    /\ UNCHANGED <<numTeams, populationSize, generations, onProgress,
                   coAssignGroups, run, repair, generationsInput,
                   optimizedTeams, exported, page>>

\* handleFile, reader.onload: XLSX.read or parseCSV throws and the catch
\* block alerts, or players = parseCSV(csvText) and then the test of
\* players.length
HandleFile ==
    /\ Suspended
    /\ \/ UNCHANGED <<appPlayers, lastLoaded>>
       \/ \E uploaded \in Uploads :
            /\ appPlayers' = uploaded
            /\ lastLoaded' = IF Len(uploaded) = 0 THEN lastLoaded ELSE uploaded
    /\ UNCHANGED <<config, run, repair, generationsInput, optimizedTeams,
                   exported, page>>

\* the input handler of the generations slider
SliderInput ==
    /\ Suspended
    /\ \E value \in 1 .. MaxGenerations :
         /\ value # generationsInput
         /\ generationsInput' = value
    /\ UNCHANGED <<config, run, repair, appPlayers, optimizedTeams, exported,
                   lastLoaded, page>>

\* exportResults: nothing happens while optimizedTeams is null
ExportResults ==
    /\ Suspended
    /\ DOMAIN optimizedTeams # {}
    /\ exported' = optimizedTeams
    /\ UNCHANGED <<config, run, repair, appPlayers, generationsInput,
                   optimizedTeams, lastLoaded, page>>

\* runOptimization: optimizedTeams = await optimizer.optimize(), up to the
\* setTimeout call
StoreTeams ==
    /\ pc = "done"
    /\ apc = "await"
    /\ optimizedTeams' = result
    /\ apc' = "timer"
    /\ UNCHANGED <<config, run, repair, appPlayers, generationsInput, exported,
                   lastLoaded, optimizeBtnDisabled, inProgress, runs,
                   displayed>>

\* runOptimization has constructed the optimizer from the page's state
AppInit ==
    /\ Init
    /\ onProgress
    /\ populationSize <= MaxAppPopulation
    /\ generations <= MaxGenerations

AppNext ==
    \/ Next
    \/ HandleFile
    \/ SliderInput
    \/ ExportResults
    \/ StoreTeams

AppSpec == AppInit /\ [][AppNext]_vars

----------------------------------------------------------------------------
(* The page from its first loaded file on: clicks on the optimize button,  *)
(* uploads, the runs the clicks start and what ends them.  The slider and  *)
(* the export button are followed in AppSpec.                              *)

\* the page starts at most MaxRuns runs
MaxRuns == 2

\* texts of the numTeams input when the button is clicked
NumTeamsInputs == {"", "1", "2"}

\* parseInt on the text of a number input: the number, or NaN (written with
\* n = 0) for a text that holds none
parseInt(text) ==
    LET numbers == {n \in 0 .. 20 : ToString(n) = text}
    IN  IF numbers = {} THEN [nan |-> TRUE, n |-> 0]
        ELSE [nan |-> FALSE, n |-> CHOOSE n \in numbers : TRUE]

\* a < b and a > b on a parsed number and a number: false when a is NaN
lessThan(a, b) == ~a.nan /\ a.n < b

greaterThan(a, b) == ~a.nan /\ a.n > b

\* the async function of runOptimization up to where optimize starts, or up
\* to where it first suspends or throws when numTeams is NaN: the optimizer
\* is constructed with the page's list and inputs.  With numTeams NaN
\* decodeIndividual creates no team.  With players, teams[NaN] is undefined
\* and the first evaluate throws (the arrays of NaN cells created before are
\* not followed); without players every fitness is NaN (0 / 0 at line 561),
\* no best is found and optimize reports and suspends.
StartRun(value) ==
    /\ players' = appPlayers
    /\ numTeams' = value.n
    /\ populationSize' =
         IF ~value.nan /\ TeamOptimizer(appPlayers, value.n) \in Bred
         THEN MaxAppPopulation ELSE 1
    /\ generations' = generationsInput
    /\ onProgress' = TRUE
    /\ coAssignGroups' = buildCoAssignGroups(appPlayers)
    /\ bestIndividual' = <<>>
    /\ bestFitness' = Infinity
    /\ gen' = 0
    /\ newPopulation' = <<>>
    /\ parents' = <<>>
    /\ drawnLeast' = <<>>
    /\ offspring' = <<>>
    /\ result' = <<>>
    /\ earliestLeast' = [individual |-> <<>>, fitness |-> Infinity]
    /\ leastGenerated' = Infinity
    /\ sinceYield' = 0
    /\ IF ~value.nan
       THEN /\ pc' = "create"
            /\ population' = <<>>
            /\ fitnesses' = <<>>
            /\ events' = <<>>
       ELSE IF Len(appPlayers) > 0
       THEN /\ pc' = "error"
            /\ population' = <<>>
            /\ fitnesses' = <<>>
            /\ events' = <<>>
       ELSE /\ pc' = "yield"
            /\ population' = [k \in 1 .. populationSize' |-> <<>>]
            /\ fitnesses' = [k \in 1 .. populationSize' |-> Fitness(0, NaN)]
            /\ events' = <<[generation |-> 0, bestFitness |-> Infinity,
                            avgFitness |-> avgFitness(fitnesses'),
                            completed |-> FALSE]>>

\* runOptimization that leaves the button enabled
RunOptimizationEnabled ==
    /\ ~optimizeBtnDisabled
    /\ Suspended
    /\ runs < MaxRuns
    /\ \E text \in NumTeamsInputs, confirmed \in BOOLEAN :
         LET value == parseInt(text)
         IN  IF \/ lessThan(value, 2)
                \/ greaterThan(value, 20)
                \/ ~value.nan /\ Len(appPlayers) < value.n * 9 /\ ~confirmed
             THEN UNCHANGED vars
             ELSE /\ UNCHANGED optimizeBtnDisabled
                  /\ apc' = "await"
                  /\ inProgress' = inProgress + 1
                  /\ runs' = runs + 1
                  /\ StartRun(value)
                  /\ UNCHANGED <<repair, appPlayers, generationsInput,
                                 optimizedTeams, exported, lastLoaded,
                                 displayed>>

\* runOptimization, the click handler of the optimize button (a disabled
\* button dispatches no click): the tests of the inputs (with numTeams NaN
\* each is false), then the button is disabled and the async function
\* starts
RunOptimization ==
    /\ ~optimizeBtnDisabled
    /\ Suspended
    /\ runs < MaxRuns
    /\ \E text \in NumTeamsInputs, confirmed \in BOOLEAN :
         LET value == parseInt(text)
         IN  IF \/ lessThan(value, 2)
                \/ greaterThan(value, 20)
                \/ ~value.nan /\ Len(appPlayers) < value.n * 9 /\ ~confirmed
             THEN UNCHANGED vars
             ELSE /\ optimizeBtnDisabled' = TRUE
                  /\ apc' = "await"
                  /\ inProgress' = inProgress + 1
                  /\ runs' = runs + 1
                  /\ StartRun(value)
                  /\ UNCHANGED <<repair, appPlayers, generationsInput,
                                 optimizedTeams, exported, lastLoaded,
                                 displayed>>

\* the callback of the setTimeout of line 188: displayResults(optimizedTeams)
\* and the button is enabled again
DisplayResults ==
    /\ apc = "timer"
    /\ displayed' = optimizedTeams
    /\ optimizeBtnDisabled' = FALSE
    /\ inProgress' = inProgress - 1
    /\ apc' = "idle"
    /\ UNCHANGED <<config, run, repair, appPlayers, generationsInput,
                   optimizedTeams, exported, lastLoaded, runs>>

\* the catch block of the async function: optimize threw, the error is
\* alerted and the button is enabled again
ReportError ==
    /\ pc = "error"
    /\ apc = "await"
    /\ optimizeBtnDisabled' = FALSE
    /\ inProgress' = inProgress - 1
    /\ apc' = "idle"
    /\ UNCHANGED <<config, run, repair, appPlayers, generationsInput,
                   optimizedTeams, exported, lastLoaded, runs, displayed>>

\* the page after the first file was loaded: no run started, no optimizer
\* constructed (the optimizer's fields hold those of one without players)
PageInit ==
    /\ appPlayers = RosterTrio
    /\ lastLoaded = appPlayers
    /\ generationsInput = 1
    /\ optimizedTeams = <<>>
    /\ exported = <<>>
    /\ optimizeBtnDisabled = FALSE
    /\ apc = "idle"
    /\ inProgress = 0
    /\ runs = 0
    /\ displayed = <<>>
    /\ players = <<>>
    /\ numTeams = 2
    /\ populationSize = 1
    /\ generations = 1
    /\ onProgress = FALSE
    /\ coAssignGroups = buildCoAssignGroups(players)
    /\ pc = "idle"
    /\ population = <<>>
    /\ fitnesses = <<>>
    /\ bestIndividual = <<>>
    /\ bestFitness = Infinity
    /\ gen = 0
    /\ newPopulation = <<>>
    /\ parents = <<>>
    /\ drawnLeast = <<>>
    /\ offspring = <<>>
    /\ events = <<>>
    /\ result = <<>>
    /\ earliestLeast = [individual |-> <<>>, fitness |-> Infinity]
    /\ leastGenerated = Infinity
    /\ sinceYield = 0
    /\ individual = <<>>
    /\ iteration = 0
    /\ rpc = "idle"
    /\ call = <<>>
    /\ before = <<>>
    /\ returned = FALSE

PageNext ==
    \/ Next
    \/ HandleFile
    \/ RunOptimization
    \/ StoreTeams
    \/ DisplayResults
    \/ ReportError

PageSpec == PageInit /\ [][PageNext]_vars

----------------------------------------------------------------------------
(* repairIndividual, pass by pass.  rpc is "loop" while the for loop runs, *)
(* "satisfied" after `return`, "nofix" after `break`, "exhausted" when the *)
(* loop condition fails; `before` is the array the last pass started on    *)
(* and `call` the call that decided it.                                    *)

\* RepairPass without the loop condition
RepairPassUnbounded ==
    /\ rpc = "loop"
    /\ \E q \in repairPass(this, individual) :
         /\ individual' = q.ind
         /\ rpc' = CASE q.next = "continue" -> "loop"
                     [] q.next = "return" -> "satisfied"
                     [] q.next = "break" -> "nofix"
    /\ iteration' = iteration + 1
    /\ call' = passCall(this, individual)
    /\ before' = individual
    /\ UNCHANGED <<config, host, run, returned>>

RepairPass ==
    /\ rpc = "loop"
    /\ iteration < maxIterations
    /\ \E q \in repairPass(this, individual) :
         /\ individual' = q.ind
         /\ rpc' = CASE q.next = "continue" -> "loop"
                     [] q.next = "return" -> "satisfied"
                     [] q.next = "break" -> "nofix"
    /\ iteration' = iteration + 1
    /\ call' = passCall(this, individual)
    /\ before' = individual
    /\ UNCHANGED <<config, host, run, returned>>

RepairExhausted ==
    /\ rpc = "loop"
    /\ iteration >= maxIterations
    /\ rpc' = "exhausted"
    /\ UNCHANGED <<config, host, run, individual, iteration, helper>>

RepairRosters ==
    {RosterTrio, RosterPair, RosterPlain, RosterGroup, RosterTwoGroups,
     RosterFeasibleGroups}

\* repairIndividual called on any array crossover or mutate can hand it
RepairInit ==
    /\ players \in RepairRosters
    /\ numTeams \in {2, 3}
    /\ populationSize = 1
    /\ generations = 1
    /\ onProgress = FALSE
    /\ coAssignGroups = buildCoAssignGroups(players)
    /\ pc = "repair"
    /\ population = <<>>
    /\ fitnesses = <<>>
    /\ bestIndividual = <<>>
    /\ bestFitness = Infinity
    /\ gen = 0
    /\ newPopulation = <<>>
    /\ parents = <<>>
    /\ drawnLeast = <<>>
    /\ offspring = <<>>
    /\ events = <<>>
    /\ result = <<>>
    /\ earliestLeast = [individual |-> <<>>, fitness |-> Infinity]
    /\ appPlayers = players
    /\ generationsInput = generations
    /\ optimizedTeams = <<>>
    /\ exported = <<>>
    /\ lastLoaded = players
    /\ optimizeBtnDisabled = TRUE
    /\ apc = "await"
    /\ inProgress = 1
    /\ runs = 1
    /\ displayed = <<>>
    /\ sinceYield = 0
    /\ leastGenerated = Infinity
    /\ individual \in createIndividual(this)
    /\ iteration = 0
    /\ rpc = "loop"
    /\ call = <<>>
    /\ before = <<>>
    /\ returned = FALSE

RepairNext == RepairPass \/ RepairExhausted

RepairSpec == RepairInit /\ [][RepairNext]_vars

----------------------------------------------------------------------------
(* evaluate on its own, applied to any array of team indices: `individual` *)
(* is its argument and fitnesses[1] the value it returned.                 *)

EvalRosters ==
    {RosterTrio, RosterPair, RosterGroup, RosterTwoGroups, RosterFeasible,
     RosterFeasibleGroups}

EvalInit ==
    /\ players \in EvalRosters
    /\ numTeams \in {2, 3}
    /\ populationSize = 1
    /\ generations = 1
    /\ onProgress = FALSE
    /\ coAssignGroups = buildCoAssignGroups(players)
    /\ pc = "evaluate"
    /\ population = <<>>
    /\ fitnesses = <<>>
    /\ bestIndividual = <<>>
    /\ bestFitness = Infinity
    /\ gen = 0
    /\ newPopulation = <<>>
    /\ parents = <<>>
    /\ drawnLeast = <<>>
    /\ offspring = <<>>
    /\ events = <<>>
    /\ result = <<>>
    /\ earliestLeast = [individual |-> <<>>, fitness |-> Infinity]
    /\ appPlayers = players
    /\ generationsInput = generations
    /\ optimizedTeams = <<>>
    /\ exported = <<>>
    /\ lastLoaded = players
    /\ optimizeBtnDisabled = TRUE
    /\ apc = "await"
    /\ inProgress = 1
    /\ runs = 1
    /\ displayed = <<>>
    /\ sinceYield = 0
    /\ leastGenerated = Infinity
    /\ individual \in
         IF Len(players) <= MaxBred
         THEN [PlayerIds(this) -> TeamIds(this)]
         ELSE createDrawnPerPlayer(this)
    /\ iteration = 0
    /\ rpc = "idle"
    /\ call = <<>>
    /\ before = <<>>
    /\ returned = FALSE

\* const fitness = this.evaluate(individual)
EvaluateOne ==
    /\ pc = "evaluate"
    /\ fitnesses' = <<evaluate(this, individual)>>
    /\ pc' = "evaluated"
    /\ UNCHANGED <<config, host, repair, population, bestIndividual,
                   bestFitness, gen, newPopulation, parents, drawnLeast, offspring, events,
                   result, earliestLeast, leastGenerated, sinceYield>>

EvalNext == EvaluateOne

EvalSpec == EvalInit /\ [][EvalNext]_vars

----------------------------------------------------------------------------
(* The helpers of the repair engine, each called on its own on an array    *)
(* createIndividual can produce: `call` holds the helper's name and its    *)
(* arguments, `before` the array passed in, `individual` what the call     *)
(* left in it and `returned` the value returned.                           *)

HelperRosters ==
    {RosterTrio, RosterPair, RosterGroup, RosterTwoGroups, RosterOutfield}

HelperInit ==
    /\ players \in HelperRosters
    /\ numTeams \in {2, 3}
    /\ populationSize = 1
    /\ generations = 1
    /\ onProgress = FALSE
    /\ coAssignGroups = buildCoAssignGroups(players)
    /\ pc = "call"
    /\ population = <<>>
    /\ fitnesses = <<>>
    /\ bestIndividual = <<>>
    /\ bestFitness = Infinity
    /\ gen = 0
    /\ newPopulation = <<>>
    /\ parents = <<>>
    /\ drawnLeast = <<>>
    /\ offspring = <<>>
    /\ events = <<>>
    /\ result = <<>>
    /\ earliestLeast = [individual |-> <<>>, fitness |-> Infinity]
    /\ appPlayers = players
    /\ generationsInput = generations
    /\ optimizedTeams = <<>>
    /\ exported = <<>>
    /\ lastLoaded = players
    /\ optimizeBtnDisabled = TRUE
    /\ apc = "await"
    /\ inProgress = 1
    /\ runs = 1
    /\ displayed = <<>>
    /\ sinceYield = 0
    /\ leastGenerated = Infinity
    /\ individual \in createIndividual(this)
    /\ iteration = 0
    /\ rpc = "idle"
    /\ call = <<>>
    /\ before = <<>>
    /\ returned = FALSE

\* this.movePlayer(individual, teams, fromTeamId, toTeamId)
MovePlayer ==
    /\ pc = "call"
    /\ \E fromTeamId, toTeamId \in TeamIds(this) :
         /\ fromTeamId # toTeamId
         /\ call' = <<"movePlayer", fromTeamId, toTeamId>>
         /\ individual' \in movePlayer(this, individual, fromTeamId, toTeamId)
    /\ before' = individual
    /\ returned' = TRUE
    /\ pc' = "returned"
    /\ UNCHANGED <<config, host, iteration, rpc, population, fitnesses,
                   bestIndividual, bestFitness, gen, newPopulation, parents, drawnLeast,
                   offspring, events, result, earliestLeast, leastGenerated,
                   sinceYield>>

\* this.swapPositionPlayer(individual, teams, donorTeamId, recipientTeamId,
\* position), called as fixMissingPosition calls it: for another team
SwapPositionPlayer ==
    /\ pc = "call"
    /\ \E donorTeamId, recipientTeamId \in TeamIds(this),
          position \in Range(requiredPositions) \cup {"OF"} :
         /\ donorTeamId # recipientTeamId
         /\ call' = <<"swapPositionPlayer", donorTeamId, recipientTeamId,
                      position>>
         /\ LET swaps == swapPositionPlayer(this, individual, donorTeamId,
                                            recipientTeamId, position)
            IN  IF swaps = {}
                THEN individual' = individual /\ returned' = FALSE
                ELSE individual' \in swaps /\ returned' = TRUE
    /\ before' = individual
    /\ pc' = "returned"
    /\ UNCHANGED <<config, host, iteration, rpc, population, fitnesses,
                   bestIndividual, bestFitness, gen, newPopulation, parents, drawnLeast,
                   offspring, events, result, earliestLeast, leastGenerated,
                   sinceYield>>

\* this.fixMissingPosition(individual, teams, needyTeamId, neededPos), called
\* as repairIndividual and repairPositions call it: the team sizes are
\* within 1 of each other, the needy team is short of the role and the
\* call for every deficiency visited earlier has returned false
FixMissingPosition ==
    /\ pc = "call"
    /\ \A s, t \in TeamIds(this) :
          teamSizes(this, individual)[s] - teamSizes(this, individual)[t] <= 1
    /\ LET defs == deficiencies(this, individual)
       IN  \E k \in DOMAIN defs :
             /\ \A j \in 1 .. k - 1 :
                   fixMissingPosition(this, individual, defs[j][1],
                                      defs[j][2]) = {}
             /\ call' = <<"fixMissingPosition", defs[k][1], defs[k][2]>>
             /\ LET fixes == fixMissingPosition(this, individual, defs[k][1],
                                                defs[k][2])
                IN  IF fixes = {}
                    THEN individual' = individual /\ returned' = FALSE
                    ELSE individual' \in fixes /\ returned' = TRUE
    /\ before' = individual
    /\ pc' = "returned"
    /\ UNCHANGED <<config, host, iteration, rpc, population, fitnesses,
                   bestIndividual, bestFitness, gen, newPopulation, parents, drawnLeast,
                   offspring, events, result, earliestLeast, leastGenerated,
                   sinceYield>>

HelperNext == MovePlayer \/ SwapPositionPlayer \/ FixMissingPosition

HelperSpec == HelperInit /\ [][HelperNext]_vars

----------------------------------------------------------------------------
(* crossover up to its repair calls, on any two arrays createIndividual    *)
(* can produce: `parents` are its arguments, `offspring` the two copies    *)
(* after the segment swap.                                                 *)

CrossRosters == {RosterTrio, RosterPair, RosterMixed}

CrossInit ==
    /\ players \in CrossRosters
    /\ numTeams \in {2, 3}
    /\ populationSize = 1
    /\ generations = 1
    /\ onProgress = FALSE
    /\ coAssignGroups = buildCoAssignGroups(players)
    /\ pc = "cross"
    /\ population = <<>>
    /\ fitnesses = <<>>
    /\ bestIndividual = <<>>
    /\ bestFitness = Infinity
    /\ gen = 0
    /\ newPopulation = <<>>
    /\ parents \in createIndividual(this) \X createIndividual(this)
    /\ drawnLeast = <<>>
    /\ offspring = <<>>
    /\ events = <<>>
    /\ result = <<>>
    /\ earliestLeast = [individual |-> <<>>, fitness |-> Infinity]
    /\ appPlayers = players
    /\ generationsInput = generations
    /\ optimizedTeams = <<>>
    /\ exported = <<>>
    /\ lastLoaded = players
    /\ optimizeBtnDisabled = TRUE
    /\ apc = "await"
    /\ inProgress = 1
    /\ runs = 1
    /\ displayed = <<>>
    /\ sinceYield = 0
    /\ leastGenerated = Infinity
    /\ individual = <<>>
    /\ iteration = 0
    /\ rpc = "idle"
    /\ call = <<>>
    /\ before = <<>>
    /\ returned = FALSE

\* crossover(ind1, ind2), lines 610 to 632: the copies and the segment swap
CrossoverSwap ==
    /\ pc = "cross"
    /\ offspring' \in crossoverSwap(this, parents[1], parents[2])
    /\ pc' = "crossed"
    /\ UNCHANGED <<config, host, repair, population, fitnesses,
                   bestIndividual, bestFitness, gen, newPopulation, parents, drawnLeast,
                   events, result, earliestLeast, leastGenerated, sinceYield>>

CrossNext == CrossoverSwap

CrossSpec == CrossInit /\ [][CrossNext]_vars

----------------------------------------------------------------------------
(* Properties.                                                             *)

\* team sizes within 1 of each other
Balanced(o, ind) ==
    \A s, t \in TeamIds(o) : teamSizes(o, ind)[s] - teamSizes(o, ind)[t] <= 1

\* every team has each of the seven roles and three outfielders
Covered(o, ind) ==
    \A t \in TeamIds(o) :
        /\ \A n \in DOMAIN requiredPositions :
             \E i \in DOMAIN ind :
                ind[i] = t /\ o.players[i].position = requiredPositions[n]
        /\ Cardinality({i \in DOMAIN ind :
                          ind[i] = t /\ isOutfielder(o.players[i])}) >= 3

\* all hard constraints
Valid(o, ind) == Balanced(o, ind) /\ Covered(o, ind) /\ GroupsTogether(o, ind)

\* a feasible full assignment exists (among the arrays the model draws)
FeasibleExists(o) == \E ind \in createDrawn(o) : Valid(o, ind)

HasGroups == DOMAIN coAssignGroups # {}

RepairReturned == rpc \in {"satisfied", "nofix", "exhausted"}

\* C1: throughout optimize every individual of the population, of the
\* population being built and of the pair in work, and the tracked best,
\* keep each group on one team; in the returned teams every group is inside
\* one team.
C1_GroupsKeptThroughout ==
    /\ \A ind \in Range(population) \cup Range(newPopulation)
                  \cup Range(parents) \cup Range(offspring) :
          GroupsTogether(this, ind)
    /\ bestIndividual # <<>> => GroupsTogether(this, bestIndividual)
    /\ pc = "done" =>
          \A g \in DOMAIN coAssignGroups :
             \E t \in DOMAIN result : coAssignGroups[g] \subseteq result[t]

C1_Witness ==
    /\ pc = "done"
    /\ HasGroups
    /\ populationSize = MaxPopulation
    /\ gen = MaxGenerations
    /\ \E g \in DOMAIN coAssignGroups : coAssignGroups[g] \subseteq result[1]

\* C2: every individual createIndividual produced (the initial population,
\* before anything else touched it) has each group on one team.
C2_CreatedGroupsTogether ==
    (pc = "loop" /\ gen = 0) =>
        \A k \in DOMAIN population : GroupsTogether(this, population[k])

C2_Witness ==
    /\ pc = "loop"
    /\ gen = 0
    /\ HasGroups
    /\ populationSize >= 2
    /\ population[1] # population[2]

\* C3: the offspring crossover returns and the individuals mutate returns
\* have each group on one team.
C3_OperatorsKeepGroups ==
    \A k \in DOMAIN offspring : GroupsTogether(this, offspring[k])

C3_Witness ==
    /\ HasGroups
    /\ pc = "breed"
    /\ offspring # <<>>
    /\ offspring[1] # offspring[2]
    /\ offspring[1] \notin Range(population)

\* C4: when a feasible full assignment exists and there are no groups, the
\* teams optimize returns are numTeams teams with sizes within 1 of each
\* other, each with the seven roles and three outfielders.
C4_ReturnedTeamsValid ==
    (pc = "done" /\ ~HasGroups /\ FeasibleExists(this)) =>
        /\ DOMAIN result = TeamIds(this)
        /\ \A s, t \in DOMAIN result :
              Cardinality(result[s]) - Cardinality(result[t]) <= 1
        /\ \A t \in DOMAIN result :
              /\ \A n \in DOMAIN requiredPositions :
                    getPositionCount(this, result[t], requiredPositions[n]) >= 1
              /\ getPositionCount(this, result[t], "OF") >= 3

\* C5: every individual optimize has passed to evaluate satisfies all hard
\* constraints.
C5_OnlyValidEvaluated ==
    pc \in {"yield", "breed", "crossover", "mutate1", "mutate2"} =>
        \A k \in DOMAIN population : Valid(this, population[k])

\* C6: when a feasible full assignment exists, repairIndividual returns an
\* individual with team sizes within 1 of each other and full coverage.
C6_RepairConverges ==
    (RepairReturned /\ FeasibleExists(this)) =>
        Balanced(this, individual) /\ Covered(this, individual)

\* C7: when repairIndividual returns, by any exit, the team sizes are within
\* 1 of each other.
C7_RepairedBalanced ==
    RepairReturned => Balanced(this, individual)

\* C8: repairIndividual makes at most 100 passes and then returns: while it
\* is in the loop either the budget is used up or a pass has an outcome.
C8_AtMostHundredPasses ==
    /\ iteration <= 100
    /\ rpc = "loop" =>
          \/ iteration >= 100
          \/ repairPass(this, individual) # {}

C8_Witness ==
    /\ rpc = "exhausted"
    /\ iteration = 100
    /\ ~HasGroups

\* C9: the individual optimize returns has fitness at most that of every
\* individual generated during the run, last offspring included.
C9_ReturnedIsLeastGenerated ==
    pc = "done" => AtMost(fitnessOf(this, bestIndividual), leastGenerated)

\* C10: the tracked best is the earliest evaluated individual of least
\* fitness among all evaluated so far, the best fitness never increases, and
\* optimize returns the decoding of that individual.
C10_BestIsEarliestLeast ==
    /\ [](/\ bestIndividual = earliestLeast.individual
          /\ bestFitness = earliestLeast.fitness
          /\ pc = "done" =>
                result = decodeIndividual(this, earliestLeast.individual))
    /\ [][AtMost(bestFitness', bestFitness)]_vars

\* a later individual ties with the tracked best, which is kept
C10_Witness ==
    /\ pc = "breed"
    /\ gen = 1
    /\ \E k \in DOMAIN population :
          /\ fitnesses[k] = bestFitness
          /\ population[k] # bestIndividual
          /\ \E j \in 1 .. (k - 1) : population[j] = bestIndividual

\* C11: every generation's population has exactly populationSize
\* individuals; a next population starts with one copy of the best so far,
\* and grows only by the mutated offspring of a pair, the second of which is
\* left out when one slot remains.
C11_PopulationRefilled ==
    /\ [](/\ pc \notin {"create", "repair"} => Len(population) = populationSize
          /\ Len(newPopulation) <= populationSize
          /\ (pc = "loop" /\ gen > 0) =>
                /\ population = newPopulation
                /\ population[1] = bestIndividual)
    /\ [][newPopulation' # newPopulation =>
            \/ /\ pc \in {"loop", "yield"}
               /\ newPopulation' = <<bestIndividual'>>
            \/ /\ pc = "mutate2"
               /\ offspring'[1] = offspring[1]
               /\ offspring'[2] \in mutate(this, offspring[2])
               /\ newPopulation' =
                    IF Len(newPopulation) + 2 <= populationSize
                    THEN newPopulation \o offspring'
                    ELSE Append(newPopulation, offspring'[1])]_vars

\* an even population size: the second offspring of the last pair is dropped
C11_Witness ==
    /\ pc = "loop"
    /\ gen = 1
    /\ populationSize = 2
    /\ population[2] = offspring[1]
    /\ offspring[2] \notin Range(population)

\* the teams `teams` are the partition of the players that `ind` names
IsPartitionOf(teams, ind) ==
    /\ DOMAIN teams = 0 .. numTeams - 1
    /\ \A i \in DOMAIN ind : \A t \in DOMAIN teams : i \in teams[t] <=> ind[i] = t
    /\ UNION Range(teams) = 1 .. Len(players)
    /\ \A s, t \in DOMAIN teams : s # t => teams[s] \cap teams[t] = {}

\* C12: decodeIndividual gives numTeams teams with ids 0..numTeams-1 where
\* player i is on exactly the team of cell i, the teams cover all players,
\* and the individual decoded is left as it was: the returned teams are the
\* partition the best individual names.
C12_DecodePartitions ==
    /\ \A ind \in Range(population) \cup Range(newPopulation) :
          IsPartitionOf(decodeIndividual(this, ind), ind)
    /\ pc = "done" =>
          /\ IsPartitionOf(result, bestIndividual)
          /\ result = decodeIndividual(this, bestIndividual)
          /\ bestIndividual = earliestLeast.individual

C12_Witness ==
    /\ pc = "done"
    /\ result[0] # {}
    /\ Cardinality(result[1]) > Cardinality(result[0])
    /\ \E k \in DOMAIN population : population[k] # bestIndividual

\* the generations below n that report: 0, 10, 20, ...
Reporting(n) == {g \in 0 .. n - 1 : g % 10 = 0}

\* the generations whose evaluation is behind the run
Evaluated ==
    IF pc \in {"create", "loop", "done", "repair"} THEN 0 .. gen - 1 ELSE 0 .. gen

\* C13: with a callback, the events are one per generation 0, 10, 20, ...
\* evaluated so far, in increasing order and each with the best fitness at
\* its emission, followed, exactly when optimize has returned, by one event
\* with completed = true and generation = generations; without a callback
\* there is no event.
C13_ProgressEvents ==
    /\ [](LET periodic == Cardinality(Reporting(generations) \cap Evaluated)
          IN  /\ ~onProgress => events = <<>>
              /\ onProgress =>
                   /\ Len(events) = periodic + (IF pc = "done" THEN 1 ELSE 0)
                   /\ \A k \in 1 .. periodic :
                         /\ events[k].generation = 10 * (k - 1)
                         /\ ~events[k].completed
                   /\ pc = "done" =>
                         /\ events[Len(events)].completed
                         /\ events[Len(events)].generation = generations
                         /\ events[Len(events)].bestFitness = bestFitness)
    /\ [][events' # events =>
            /\ pc = "loop"
            /\ \E e \in {events'[Len(events')]} :
                  /\ events' = Append(events, e)
                  /\ e.bestFitness = bestFitness'
                  /\ e.completed <=> pc' = "done"]_vars

\* a run of more than ten generations: reports of generations 0 and 10 with
\* different best fitnesses, then the completed event
C13_Witness ==
    /\ pc = "done"
    /\ Len(events) = 3
    /\ events[2].generation = 10
    /\ events[2].bestFitness # events[1].bestFitness
    /\ events[3].completed

\* C14: optimize suspends every 10 generations whether or not a callback
\* is configured: never more than 10 generations in a row are evaluated
\* without a suspension.
C14_YieldsEveryTen ==
    sinceYield <= 10

\* C15: the page's handlers that run while optimize is suspended (a file
\* upload, an export click, a slider input) leave the optimizer's player
\* list, group table, population, best individual and best fitness as they
\* were: a suspended run changes only by resuming, and resuming changes
\* none of them.
C15_SuspendedStateKept ==
    [][pc = "yield" =>
         /\ UNCHANGED <<players, coAssignGroups, population, fitnesses,
                        bestIndividual, bestFitness, gen, numTeams>>
         /\ pc' \in {"yield", "breed"}
         /\ pc' = "breed" => newPopulation' = <<bestIndividual>>]_vars

\* a file was uploaded and the slider moved while the run was suspended, and
\* the run has returned teams of the players it started with
C15_Witness ==
    /\ pc = "done"
    /\ appPlayers # players
    /\ generationsInput # generations
    /\ UNION Range(result) = 1 .. Len(players)
    /\ Len(players) > 0

\* C16: a configuration with fewer than 2 teams or a population of fewer
\* than 2 is rejected before the loop: no population is created and no
\* generation is run for it.
C16_SmallConfigRejected ==
    (numTeams < 2 \/ populationSize < 2) =>
        /\ population = <<>>
        /\ fitnesses = <<>>
        /\ gen = 0
        /\ pc \in {"create", "repair"}

\* an upper bound of the steps optimize still takes
stepsLeft ==
    LET perGeneration == 3 + 4 * populationSize
        slots == populationSize - Len(newPopulation)
        later == 1 + (generations - gen - 1) * perGeneration
    IN  CASE pc \in {"done", "error", "repair"} -> 0
          [] pc = "create" -> 2 + generations * perGeneration
          [] pc = "loop" -> 1 + (generations - gen) * perGeneration
          [] pc = "yield" -> later + 2 + 4 * populationSize
          [] pc = "breed" -> later + 1 + 4 * slots
          [] pc = "crossover" -> later + 4 * slots
          [] pc = "mutate1" -> later + 4 * slots - 1
          [] pc = "mutate2" -> later + 4 * slots - 2

\* optimize has a next step wherever it has not returned
NotStuck ==
    /\ pc = "create" => createDrawn(this) # {}
    /\ (pc = "breed" /\ Len(newPopulation) < populationSize) =>
          tournamentSelection(population, fitnesses) # {}
    /\ pc = "crossover" => crossover(this, parents[1], parents[2]) # {}
    /\ pc = "mutate1" => mutate(this, offspring[1]) # {}
    /\ pc = "mutate2" => mutate(this, offspring[2]) # {}

\* no error was raised and no division by zero entered a fitness; what
\* optimize returned is numTeams teams that partition the players
RunsClean ==
    /\ pc # "error"
    /\ \A k \in DOMAIN fitnesses : ~IsNaN(fitnesses[k])
    /\ ~IsNaN(bestFitness)
    /\ \A k \in DOMAIN events : ~IsNaN(events[k].avgFitness)
    /\ pc = "done" =>
          /\ DOMAIN result = 0 .. numTeams - 1
          /\ IsPartitionOf(result, bestIndividual)

\* fewer players than numTeams full rosters of 9 need
TooFew == Len(players) < 9 * numTeams

SizeGap(teams) ==
    \E s, t \in DOMAIN teams : Cardinality(teams[s]) - Cardinality(teams[t]) > 1

\* C17 as stated: optimize terminates for every player list and returns
\* numTeams teams without an error or a division by zero, and with too few
\* players the returned teams show a role with count 0 on some team or a
\* size difference above 1.
C17_AsStated ==
    /\ RunsClean
    /\ NotStuck
    /\ (pc = "done" /\ TooFew) =>
          \/ SizeGap(result)
          \/ \E t \in DOMAIN result :
                \E pos \in Range(requiredPositions) \cup {"OF"} :
                   getPositionCount(this, result[t], pos) = 0

\* C17, amended: optimize terminates for every player list (every step
\* lowers stepsLeft and no state before the return is stuck) and returns
\* numTeams teams without an error or a division by zero; with too few
\* players the returned teams show a role with count 0, fewer than 3
\* outfielders on some team, or a size difference above 1.
C17_CompletesAndShowsShortage ==
    /\ [](/\ RunsClean
          /\ NotStuck
          /\ (pc = "done" /\ TooFew) =>
                \/ SizeGap(result)
                \/ \E t \in DOMAIN result :
                      \/ getPositionCount(this, result[t], "OF") < minOutfield
                      \/ \E pos \in Range(requiredPositions) :
                            getPositionCount(this, result[t], pos) = 0)
    /\ [][stepsLeft' < stepsLeft]_vars

\* a run on the empty player list has bred and returned its empty teams
C17_Witness ==
    /\ pc = "done"
    /\ Len(players) = 0
    /\ populationSize > 1
    /\ gen > 1
    /\ \A t \in 0 .. numTeams - 1 : result[t] = {}

\* the sizes, outfielder counts and uncovered (team, role) pairs of the
\* teams `individual` names, and its split groups
Members(t) == {i \in DOMAIN individual : individual[i] = t}

Outfielders(t) == {i \in Members(t) : players[i].position \in {"CF", "OF"}}

Uncovered ==
    {<<t, pos>> \in (0 .. numTeams - 1) \X Range(requiredPositions) :
        \A i \in Members(t) : players[i].position # pos}

SplitGroups ==
    {g \in DOMAIN coAssignGroups :
        \E i, j \in coAssignGroups[g] : individual[i] # individual[j]}

Short(n, have) == IF have < n THEN n - have ELSE 0

RECURSIVE SumShort(_, _, _)
SumShort(teams, n, count) ==
    IF teams = {} THEN 0
    ELSE LET t == CHOOSE t \in teams : TRUE
         IN  Short(n, Cardinality(count[t])) + SumShort(teams \ {t}, n, count)

\* C18: the value evaluate returns is its soft terms and coach term plus
\* 10000 per (team, mandatory role) pair without a player, 5000 per
\* outfielder short of 3 on a team, 2000 per player short of 9 on a team,
\* 500 per split group however many teams it is on, and 3000 per unit of
\* (maxSize - minSize) above 1; the hard part is never negative.
C18_HardPenalty ==
    pc = "evaluated" =>
        LET teams == 0 .. numTeams - 1
            sizes == {Cardinality(Members(t)) : t \in teams}
            hard == 10000 * Cardinality(Uncovered)
                    + 5000 * SumShort(teams, 3, [t \in teams |-> Outfielders(t)])
                    + 2000 * SumShort(teams, 9, [t \in teams |-> Members(t)])
                    + 500 * Cardinality(SplitGroups)
                    + 3000 * Short(Max(sizes) - 1, Min(sizes))
        IN  /\ hard >= 0
            /\ hard = hardPenalty(this, individual)
            /\ fitnesses[1] =
                 Fitness(hard + coachPenalty(this, individual),
                         softTerms(this, individual))

\* a group on three teams, a team two outfielders short and a size gap of 2
C18_Witness ==
    /\ pc = "evaluated"
    /\ \E g \in DOMAIN coAssignGroups :
          Cardinality({individual[i] : i \in coAssignGroups[g]}) = 3
    /\ \E t \in 0 .. numTeams - 1 : Cardinality(Outfielders(t)) = 1
    /\ \E s, t \in 0 .. numTeams - 1 :
          Cardinality(Members(s)) - Cardinality(Members(t)) = 2

\* the coaches on team t of `individual`
Coaches(t) == {i \in Members(t) : players[i].isCoach}

\* C19: the coach term of the value evaluate returns is, with at least
\* numTeams coaches, 50 per team without a coach plus 30 per coach beyond
\* the first on a team; with fewer coaches (one included) 50 per coach
\* beyond the first on a team and nothing for a team without one; with no
\* coach, 0.
C19_CoachTerm ==
    pc = "evaluated" =>
        LET teams == 0 .. numTeams - 1
            total == Cardinality({i \in DOMAIN players : players[i].isCoach})
            without == Cardinality({t \in teams : Coaches(t) = {}})
            beyondFirst == total - Cardinality({t \in teams : Coaches(t) # {}})
            term == IF total >= numTeams
                    THEN 50 * without + 30 * beyondFirst
                    ELSE 50 * beyondFirst
        IN  /\ total = 0 => term = 0
            /\ term = coachPenalty(this, individual)
            /\ fitnesses[1] =
                 Fitness(hardPenalty(this, individual) + term,
                         softTerms(this, individual))

\* fewer coaches than teams, two of them on one team and a team without one
C19_Witness ==
    /\ pc = "evaluated"
    /\ Cardinality({i \in DOMAIN players : players[i].isCoach}) < numTeams
    /\ \E t \in 0 .. numTeams - 1 : Cardinality(Coaches(t)) = 2
    /\ \E t \in 0 .. numTeams - 1 : Coaches(t) = {}
    /\ coachPenalty(this, individual) = 50

\* C20: every progress event, the completed one included, carries the mean
\* fitness of the current population: the periodic event that of the
\* population just evaluated, the completed event that of the population
\* at the return (or of the last population evaluated).
C20_EventsCarryMean ==
    (onProgress /\ events # <<>>) =>
        LET last == events[Len(events)]
        IN  /\ pc = "yield" => last.avgFitness = avgFitness(fitnesses)
            /\ pc = "done" =>
                  \/ last.avgFitness = avgFitness(fitnesses)
                  \/ last.avgFitness =
                       avgFitness([k \in DOMAIN population |->
                                     fitnessOf(this, population[k])])

\* the teams of `individual` of largest and of smallest size
Largest ==
    {t \in 0 .. numTeams - 1 :
        \A s \in 0 .. numTeams - 1 :
           Cardinality(Members(t)) >= Cardinality(Members(s))}

Smallest ==
    {t \in 0 .. numTeams - 1 :
        \A s \in 0 .. numTeams - 1 :
           Cardinality(Members(t)) <= Cardinality(Members(s))}

\* a pass of the for loop is about to run on team sizes more than 1 apart
UnbalancedPass ==
    /\ rpc = "loop"
    /\ iteration < maxIterations
    /\ \E s, t \in 0 .. numTeams - 1 :
          Cardinality(Members(s)) - Cardinality(Members(t)) > 1

\* the cells of `individual` a step changes
Changed == {i \in DOMAIN individual : individual'[i] # individual[i]}

Ungrouped(t) ==
    {i \in Members(t) : \A g \in DOMAIN coAssignGroups : i \notin coAssignGroups[g]}

\* C21 as stated: in a pass on team sizes more than 1 apart exactly one
\* player changes team, from a largest team to a smallest team, every other
\* cell is unchanged and the loop goes on.
C21_AsStated ==
    [][UnbalancedPass =>
         /\ Cardinality(Changed) = 1
         /\ \A i \in Changed :
               individual[i] \in Largest /\ individual'[i] \in Smallest
         /\ rpc' = "loop"]_vars

\* C21, amended: in a pass on team sizes more than 1 apart the cells that
\* change are those of one ungrouped player of a largest team or, when that
\* team has no ungrouped player, those of all members of one group with a
\* member on it; they are set to a smallest team, every other cell is
\* unchanged, no role is fixed in that pass and the loop goes on.
C21_BalancingMove ==
    [][UnbalancedPass =>
         /\ rpc' = "loop"
         /\ iteration' = iteration + 1
         /\ \E from \in Largest, to \in Smallest :
               IF Ungrouped(from) # {}
               THEN \E i \in Ungrouped(from) :
                       individual' = [individual EXCEPT ![i] = to]
               ELSE \E g \in DOMAIN coAssignGroups :
                       /\ coAssignGroups[g] \cap Members(from) # {}
                       /\ individual' =
                            [j \in DOMAIN individual |->
                               IF j \in coAssignGroups[g] THEN to
                               ELSE individual[j]]]_vars

\* the ungrouped player has left the team of the group in one pass and the
\* whole group has followed in the next
C21_Witness ==
    /\ rpc = "loop"
    /\ iteration = 2
    /\ HasGroups
    /\ Len(players) = 4
    /\ numTeams = 2
    /\ \A i \in DOMAIN individual : individual[i] = individual[1]

\* a helper has returned from the call `name`
Returned(name) == pc = "returned" /\ call[1] = name

\* the cells in which the array a call left differs from the one passed in
Moved == {i \in DOMAIN individual : individual[i] # before[i]}

\* the players no group holds
Free == {i \in DOMAIN players :
            \A g \in DOMAIN coAssignGroups : i \notin coAssignGroups[g]}

\* no group of the array is on two teams
Unsplit(ind) ==
    \A g \in DOMAIN coAssignGroups :
        \A i, j \in coAssignGroups[g] : ind[i] = ind[j]

\* C22: movePlayer(from, to) reassigns exactly one ungrouped player of
\* `from` to `to` whenever `from` has one; when every player of `from` is
\* grouped it reassigns all members of one group with a member on `from`;
\* when `from` is empty it changes nothing; no other cell changes and no
\* group ends up split if none was split before.
C22_MovePlayer ==
    Returned("movePlayer") =>
        LET from == call[2]
            to == call[3]
            onFrom == {i \in DOMAIN before : before[i] = from}
        IN  /\ onFrom \cap Free # {} =>
                  \E i \in onFrom \cap Free :
                     individual = [before EXCEPT ![i] = to]
            /\ (onFrom # {} /\ onFrom \cap Free = {}) =>
                  \E g \in DOMAIN coAssignGroups :
                     /\ coAssignGroups[g] \cap onFrom # {}
                     /\ individual =
                          [j \in DOMAIN before |->
                             IF j \in coAssignGroups[g] THEN to ELSE before[j]]
            /\ onFrom = {} => individual = before
            /\ \A i \in Moved : before[i] = from /\ individual[i] = to
            /\ Unsplit(before) => Unsplit(individual)

\* `from` held two groups and no ungrouped player: one group of two has
\* moved, the other has stayed
C22_Witness ==
    /\ Returned("movePlayer")
    /\ Cardinality(Moved) = 2
    /\ \E i \in DOMAIN before : before[i] = call[2] /\ individual[i] = call[2]
    /\ \A i \in Free : before[i] # call[2]

\* player i can fill the role: for "OF" any outfielder
Qualifies(i, pos) ==
    \/ players[i].position = pos
    \/ pos = "OF" /\ players[i].position \in {"CF", "OF"}

\* the players of team t, in the array passed to the call, who can fill pos
Holding(t, pos) == {i \in DOMAIN before : before[i] = t /\ Qualifies(i, pos)}

\* the teams other than the needy one with a surplus of the role
SurplusTeams(needy, pos) ==
    {t \in (0 .. numTeams - 1) \ {needy} :
        Cardinality(Holding(t, pos)) > (IF pos = "OF" THEN 3 ELSE 1)}

\* C23: in fixMissingPosition, when no team has a surplus of the needed
\* role, any other team with at least one qualifying player is accepted as
\* donor, for ordinary roles and for the outfield requirement alike: when
\* some other team holds a qualifying ungrouped player the call moves one
\* such player to the needy team and returns true.
C23_FallbackAnyHolder ==
    Returned("fixMissingPosition") =>
        LET needy == call[2]
            pos == call[3]
            holders == {t \in (0 .. numTeams - 1) \ {needy} :
                           Holding(t, pos) \cap Free # {}}
        IN  (SurplusTeams(needy, pos) = {} /\ holders # {}) =>
                /\ returned
                /\ \E t \in holders :
                      \E i \in Holding(t, pos) \cap Free :
                         individual = [before EXCEPT ![i] = needy]

\* the number of players of team t who can fill pos, in the array `ind`
CountOn(ind, t, pos) ==
    Cardinality({i \in DOMAIN ind : ind[i] = t /\ Qualifies(i, pos)})

\* C24: a role-fixing move taken from a first-tier donor (a team with more
\* than 1 player of the needed ordinary role, or more than 3 outfielders
\* for the outfield requirement) creates no new shortage on the donor:
\* after the move the donor still covers every mandatory role it covered
\* and still has at least 3 outfielders if it had before.
C24_SurplusDonorKeepsCoverage ==
    (Returned("fixMissingPosition") /\ returned) =>
        \A i \in Moved :
            before[i] \in SurplusTeams(call[2], call[3]) =>
                /\ \A n \in DOMAIN requiredPositions :
                      CountOn(before, before[i], requiredPositions[n]) >= 1 =>
                         CountOn(individual, before[i], requiredPositions[n]) >= 1
                /\ CountOn(before, before[i], "OF") >= 3 =>
                      CountOn(individual, before[i], "OF") >= 3

\* the roles in the order a team is searched for deficiencies
roleOrder == requiredPositions \o <<"OF">>

\* team t of the array is short of the role
Lacks(ind, t, pos) ==
    CountOn(ind, t, pos) < (IF pos = "OF" THEN 3 ELSE 1)

\* the deficiencies <<team, index of the role in roleOrder>> of the array
Needs(ind) ==
    {d \in (0 .. numTeams - 1) \X DOMAIN roleOrder :
        Lacks(ind, d[1], roleOrder[d[2]])}

\* the teams a player can be taken from for the deficiency: another team
\* with a player of the role (three outfielders for "OF") and an ungrouped
\* one among them
Donors(ind, d) ==
    {t \in (0 .. numTeams - 1) \ {d[1]} :
        /\ CountOn(ind, t, roleOrder[d[2]]) >
              (IF roleOrder[d[2]] = "OF" THEN 2 ELSE 0)
        /\ \E i \in Free : ind[i] = t /\ Qualifies(i, roleOrder[d[2]])}

\* the first of a set of deficiencies: teams in order, then roles in order
First(ds) ==
    CHOOSE d \in ds :
        \A e \in ds : d[1] < e[1] \/ (d[1] = e[1] /\ d[2] <= e[2])

\* a pass of the for loop is about to run on balanced sizes and a deficiency
RolePass ==
    /\ rpc = "loop"
    /\ iteration < maxIterations
    /\ \A s, t \in 0 .. numTeams - 1 :
          Cardinality(Members(s)) - Cardinality(Members(t)) <= 1
    /\ Needs(individual) # {}

\* the step moves one ungrouped player of the role from a donor team to the
\* needy team of deficiency d and changes nothing else
FixesNeed(d) ==
    \E t \in Donors(individual, d) :
        \E i \in Free :
           /\ individual[i] = t
           /\ Qualifies(i, roleOrder[d[2]])
           /\ individual' = [individual EXCEPT ![i] = d[1]]

\* C25 as stated: in a role-repair pass only the first deficiency is
\* attempted; if it has no donor, repairIndividual breaks out of its loop
\* with the individual unchanged by that pass.
C25_AsStated ==
    [][RolePass =>
         IF Donors(individual, First(Needs(individual))) = {}
         THEN individual' = individual /\ rpc' = "nofix"
         ELSE FixesNeed(First(Needs(individual))) /\ rpc' = "loop"]_vars

\* C25, amended: in a role-repair pass the deficiencies are attempted in
\* order (teams in order, the missing roles of a team in order) until one
\* has a donor, and that one is fixed; only if no deficiency has a donor
\* does repairIndividual break out of its loop, with the individual
\* unchanged by that pass.
C25_FirstFixableAttempted ==
    [][RolePass =>
         LET fixable == {d \in Needs(individual) : Donors(individual, d) # {}}
         IN  IF fixable = {}
             THEN individual' = individual /\ rpc' = "nofix"
             ELSE FixesNeed(First(fixable)) /\ rpc' = "loop"]_vars

\* the last pass fixed a deficiency that was not the first of its array
C25_Witness ==
    /\ rpc = "loop"
    /\ call # <<>>
    /\ call[1] = "fixMissingPosition"
    /\ <<call[2], call[3]>> #
          <<First(Needs(before))[1], roleOrder[First(Needs(before))[2]]>>
    /\ Donors(before, First(Needs(before))) = {}
    /\ individual # before

\* C26: swapPositionPlayer(donor, recipient, role) either reassigns to the
\* recipient exactly one player who is on the donor team, matches the role
\* (for "OF": is an outfielder) and belongs to no group, and returns true,
\* or, when the donor has no such player, returns false and leaves the
\* individual unchanged; it never moves a grouped player and changes no
\* other cell.
C26_SwapPositionPlayer ==
    Returned("swapPositionPlayer") =>
        LET donor == call[2]
            recipient == call[3]
            candidates == Holding(donor, call[4]) \cap Free
        IN  /\ candidates # {} =>
                  /\ returned
                  /\ \E i \in candidates :
                        individual = [before EXCEPT ![i] = recipient]
                  /\ Cardinality(Moved) = 1
            /\ candidates = {} => ~returned /\ individual = before
            /\ Moved \subseteq Free

\* an ungrouped CF has moved for the outfield requirement
C26_Witness ==
    /\ Returned("swapPositionPlayer")
    /\ returned
    /\ call[4] = "OF"
    /\ \E i \in Moved : players[i].position = "CF"

\* the array has team sizes within 1 of each other and no deficiency
Feasible(ind) ==
    /\ \A s, t \in 0 .. numTeams - 1 :
          Cardinality({i \in DOMAIN ind : ind[i] = s})
            - Cardinality({i \in DOMAIN ind : ind[i] = t}) <= 1
    /\ Needs(ind) = {}

\* C27: repairIndividual leaves unchanged every individual that already has
\* team sizes within 1 of each other and full coverage on every team: its
\* first pass returns; and on an individual on which it stopped with
\* feasibility reached a second application returns at once with the
\* individual unchanged.
C27_FeasibleUntouched ==
    /\ [](rpc = "satisfied" =>
            /\ Feasible(individual)
            /\ repairPass(this, individual) =
                  {[ind |-> individual, next |-> "return"]})
    /\ [][(rpc = "loop" /\ iteration < maxIterations /\ Feasible(individual)) =>
            individual' = individual /\ rpc' = "satisfied"]_vars

\* a feasible array with groups was passed in and returned by the first pass
C27_Witness ==
    /\ rpc = "satisfied"
    /\ iteration = 1
    /\ HasGroups
    /\ individual = before
    /\ Feasible(before)

\* C28: whenever repairIndividual returns before its budget of 100 passes
\* is used up (by `return` or by `break`), the team sizes are within 1 of
\* each other and either no team has a deficiency, or for every remaining
\* deficiency no other team holds an eligible ungrouped player of the role
\* (a team with more than 0 of an ordinary role, more than 2 outfielders
\* for the outfield requirement).
C28_EarlyReturnState ==
    rpc \in {"satisfied", "nofix"} =>
        /\ \A s, t \in 0 .. numTeams - 1 :
              Cardinality(Members(s)) - Cardinality(Members(t)) <= 1
        /\ \/ Needs(individual) = {}
           \/ \A d \in Needs(individual) : Donors(individual, d) = {}
        /\ rpc = "satisfied" <=> Needs(individual) = {}

\* repair has given up after a move, on a deficiency whose role another
\* team holds only in grouped players or in too few outfielders
C28_Witness ==
    /\ rpc = "nofix"
    /\ iteration > 1
    /\ \E d \in Needs(individual) :
          \E t \in (0 .. numTeams - 1) \ {d[1]} :
             CountOn(individual, t, roleOrder[d[2]]) > 0

\* the n-th ungrouped player in index order
FreeAt(n) == CHOOSE i \in Free : Cardinality({j \in Free : j < i}) = n - 1

\* array a with the cells of `cells` taken from array b
TakenFrom(a, b, cells) ==
    [i \in DOMAIN a |-> IF i \in cells THEN b[i] ELSE a[i]]

\* C29: before repair, the two offspring of crossover differ from their
\* respective parents only at positions of ungrouped players; those
\* positions form one contiguous run of the list of ungrouped indices, and
\* at each of them the parents' team values are exchanged; the cells of
\* grouped players are copied unchanged from the respective parent.
C29_SegmentSwap ==
    pc = "crossed" =>
        /\ \E lo \in 1 .. Cardinality(Free) + 1, hi \in 0 .. Cardinality(Free) :
              LET segment == {FreeAt(n) : n \in lo .. hi}
              IN  /\ offspring[1] = TakenFrom(parents[1], parents[2], segment)
                  /\ offspring[2] = TakenFrom(parents[2], parents[1], segment)
        /\ \A k \in 1 .. 2 :
              \A i \in DOMAIN players \ Free : offspring[k][i] = parents[k][i]

\* the first two ungrouped players (indices 1 and 3) were exchanged across
\* a grouped player on whom the parents differ
C29_Witness ==
    /\ pc = "crossed"
    /\ Len(players) = 6
    /\ offspring[1][1] # parents[1][1]
    /\ offspring[1][3] # parents[1][3]
    /\ offspring[1][4] = parents[1][4]
    /\ parents[1][4] # parents[2][4]
    /\ parents[1][2] # parents[2][2]

\* the next generation is being built
Breeding == pc \in {"breed", "crossover", "mutate1", "mutate2"}

\* C30: each parent tournamentSelection returned is an individual of the
\* current population whose fitness is the least among the competitors
\* drawn for it; and building the next generation (selection, crossover,
\* mutation and the in-place repair of the offspring) modifies no
\* individual of the current population, nor the tracked best, nor an
\* individual already pushed to the next population: the operators work on
\* copies.
C30_BreedingOnCopies ==
    /\ [](pc = "crossover" =>
            \A n \in 1 .. 2 :
               \E k \in DOMAIN population :
                  /\ population[k] = parents[n]
                  /\ fitnesses[k] = drawnLeast[n])
    /\ [][Breeding =>
            /\ UNCHANGED <<bestIndividual, bestFitness, fitnesses>>
            /\ pc' # "loop" => population' = population
            /\ Len(newPopulation') >= Len(newPopulation)
            /\ SubSeq(newPopulation', 1, Len(newPopulation)) = newPopulation]_vars

\* the two tournaments of the first pair were won at different fitnesses,
\* and an individual of the population less fit than both winners was not
\* selected
C30_Witness ==
    /\ pc = "crossover"
    /\ populationSize = 3
    /\ Len(newPopulation) = 1
    /\ Less(drawnLeast[2], drawnLeast[1])
    /\ \E k \in DOMAIN population :
          /\ Less(drawnLeast[1], fitnesses[k])
          /\ population[k] \notin Range(parents)

\* an array with one cell per player, each cell a team index
WellFormed(o, ind) ==
    /\ DOMAIN ind = 1 .. o.numPlayers
    /\ \A i \in DOMAIN ind : ind[i] \in Int /\ 0 <= ind[i] /\ ind[i] < o.numTeams

\* the arrays optimize holds: the population, the one being built, the pair
\* selected, the pair bred, and the tracked best once there is one
Individuals ==
    Range(population) \cup Range(newPopulation) \cup Range(parents)
        \cup Range(offspring)
        \cup (IF bestFitness.inf THEN {} ELSE {bestIndividual})

\* C31: whatever createIndividual, tournamentSelection, crossover, mutate and
\* repairIndividual steps optimize has taken, every individual it holds has
\* one cell per player and every cell is a team index from 0 to numTeams - 1.
C31_IndividualsWellFormed ==
    \A ind \in Individuals :
        WellFormed([numPlayers |-> Len(players), numTeams |-> numTeams], ind)

\* a second generation is bred: the pair in work went through selection,
\* crossover, both mutations and their repairs, and differs from every
\* array createIndividual made
C31_Witness ==
    /\ pc = "breed"
    /\ gen = 1
    /\ Len(players) = 3
    /\ Len(newPopulation) = MaxPopulation
    /\ offspring # <<>>
    /\ offspring[1] # offspring[2]
    /\ \A k \in DOMAIN offspring : offspring[k] \notin Range(population)
    /\ \E i \in DOMAIN offspring[1] : offspring[1][i] = numTeams - 1

\* C32: at most one run is in progress on the page; while one is, from the
\* click that started it until its teams are displayed or its error is
\* reported, the optimize button is disabled; optimizedTeams is written
\* only with the result of that run, and the teams awaiting display are
\* that result.
C32_OneRunAtATime ==
    /\ [](/\ inProgress <= 1
          /\ inProgress = 1 => optimizeBtnDisabled
          /\ apc = "timer" => optimizedTeams = result)
    /\ [][/\ runs' # runs => inProgress = 0
          /\ optimizedTeams' # optimizedTeams =>
                inProgress = 1 /\ pc = "done" /\ optimizedTeams' = result]_vars

\* the second run, started after the teams of the first were displayed, is
\* suspended in sleep(0), where the page's handlers can run
C32_Witness ==
    /\ runs = MaxRuns
    /\ inProgress = 1
    /\ pc = "yield"
    /\ DOMAIN displayed # {}
    /\ optimizeBtnDisabled

\* C33: every run the page starts works on the list loaded by the last
\* upload that loaded players; an upload without valid players, or one
\* whose parsing throws, does not change the list runs work on.
C33_FailedUploadKeepsList ==
    [][runs' # runs => players' = lastLoaded]_vars

====
